---- MODULE Spec2Model ----
(***************************************************************************)
(* A model of the rebrow relay room (RebrowRelay, a Durable Object) and of *)
(* the pcr-local client (LocalClient) that answers its file commands.      *)
(*                                                                         *)
(* A path is the sequence of its segments after the leading slash:         *)
(*   "/" = <<"">>, "/local/a" = <<"local", "a">>, "/local/" = <<"local","">>*)
(* A socket tag is the pair of its prefix and client id:                   *)
(*   'extension' = <<"extension">>, `mcp:${id}` = <<"mcp", id>>.           *)
(***************************************************************************)
EXTENDS Integers, Naturals, Sequences, FiniteSets, Bags, TLC

(***************************************************************************)
(* Bounds of the model.                                                    *)
(***************************************************************************)
\* fetch() calls in flight at once (a call whose response has not been
\* collected yet counts)
MaxInFlight == 2
\* sockets the room holds at once
MaxSockets == 4
\* commands sent to the Local peer in one behaviour, by callers that overlap
MaxCalls == 2
\* commands sent to the Local peer in one behaviour, by a caller that awaits each
MaxSerialCalls == 3
\* modification times on the Local machine run from 0 to MaxMtime
MaxMtime == 2
\* commands the Agents send in one behaviour
MaxCommands == 2
\* connections one LocalClient makes in a behaviour: the relay keeps the last
\* of them up, and answers its pings in time
MaxClientSockets == 4

\* ?passphrase= is absent (null) or empty: both fail `if (!passphrase)`
NoPass == ""
Passphrases == {"p", "q"}
PassInputs == Passphrases \cup {NoPass}

\* the value of storage.get('auth') on a fresh room
NoAuth == [passphraseHash |-> <<>>, createdAt |-> "never"]

VARIABLES
    auth,        \* ctx.storage 'auth': NoAuth or a RoomAuth record
    authWrites,  \* number of storage.put('auth', ...) calls so far
    firstPass,   \* the passphrase of the first call validatePassphrase returned for
    req,         \* the fetch() calls in flight: a bag of their frames
    sockets,     \* the sockets ctx.acceptWebSocket holds, with their tags
    pingInterval, \* this.pingInterval !== null
    connectedTargets,   \* this.connectedTargets: the targets, in insertion order
    pendingRequests,    \* this.pendingRequests: id -> pending extension call
    messageId,          \* this.messageId
    sent,        \* the frames the latest handler sent, in order: [to, ok, msg]
    commands,    \* number of commands the Agents have sent so far
    awaiting,    \* the Agent commands received and not replied to: <<socket id, id>>
    timers,      \* the ids whose setTimeout of sendToExtension is pending
    fileReadTimestamps,   \* this.fileReadTimestamps: path -> mtime
    pendingLocalRequests, \* this.pendingLocalRequests: id -> call awaiting it
    localMessageId,       \* this.localMessageId
    thrown,      \* what the latest readFile/writeFile call threw before its await
    rejected,    \* the pending Local calls the latest handler rejected: id -> error
    readSince,   \* paths whose file.read succeeded since the last Local close
    ledgerBy,    \* path -> the kind of call ("read", "write") that set its ledger entry
    toLocal,     \* frames in flight from the relay to the Local peer
    fromLocal,   \* frames in flight from the Local peer to the relay
    localTasks,  \* LocalClient.handleCommand invocations under way
    fs,          \* the Local machine's files: path -> NoFile or the file's mtime
    bash,        \* the bash.execute call under way, its timers and the time passed
    client       \* the LocalClient object: its fields, sockets and timers

admissionVars == <<auth, authWrites, firstPass, req, sockets, pingInterval>>
browserVars ==
    <<connectedTargets, pendingRequests, messageId, sent, commands, awaiting, timers>>
relayFileVars ==
    <<fileReadTimestamps, pendingLocalRequests, localMessageId, thrown, rejected,
      readSince, ledgerBy>>
wireVars == <<toLocal, fromLocal>>
clientVars == <<bash, client>>
localVars == <<localTasks, fs, clientVars>>
vars == <<admissionVars, browserVars, relayFileVars, wireVars, localVars>>

\* new Map()
EmptyMap == [x \in {} |-> 0]

\* Map.set and Map.delete
Put(map, key, value) ==
    [k \in DOMAIN map \cup {key} |-> IF k = key THEN value ELSE map[k]]

Delete(map, key) == [k \in DOMAIN map \ {key} |-> map[k]]

\* the files the Local peer is asked about
FilePaths == {"/a", "/b"}

\* JavaScript's undefined, where a number is expected
Undefined == 0 - 1

\* fs.promises.stat rejects with ENOENT
NoFile == Undefined

\* what callers write
Contents == {"new"}

\* no bash.execute call is under way
NoBash == [phase |-> "none"]

\* LocalClient's ws field when it is null
NoSocket == 0

\* a LocalClient after its constructor: the fields of the class, the
\* WebSocket objects whose 'close' has not been emitted yet (`socks`), the
\* number of setTimeout callbacks that are pending (`timeouts`) and, for the
\* properties, the number of sockets made so far (`created`), the sockets
\* with a ping that no pong has answered (`pingOut`) and the latest of
\* terminate() and the reconnect timer's connect() (`last`)
NewLocalClient ==
    [ws |-> NoSocket, reconnectTimeout |-> FALSE, shouldReconnect |-> TRUE,
     pingInterval |-> FALSE, pongReceived |-> TRUE,
     socks |-> EmptyMap, timeouts |-> 0, created |-> 0, pingOut |-> {},
     last |-> "none"]

(***************************************************************************)
(* Passphrase auth.                                                        *)
(***************************************************************************)
\* SHA-256, hex encoded: one-way and, on the inputs used here, injective
hashPassphrase(passphrase) == <<"sha256", passphrase>>

IdleRequest ==
    [pc |-> "idle", path |-> <<>>, pass |-> NoPass, stored |-> NoAuth,
     valid |-> FALSE, status |-> 0, body |-> "", late |-> FALSE]

\* the frame q of a call in flight becomes q2
Step(q, q2) == req' = (req (-) SetToBag({q})) (+) SetToBag({q2})

\* new Response(body, { status }): the call's locals are gone
Respond(q, status, body) ==
    Step(q, [IdleRequest EXCEPT !.pc = "done", !.path = q.path, !.pass = q.pass,
                                !.late = q.late, !.status = status, !.body = body])

(***************************************************************************)
(* The socket registry (ctx.getWebSockets, ctx.getTags).                   *)
(***************************************************************************)
getExtensionWebSocket == {s \in sockets : s.tag = <<"extension">>}

getMcpWebSocket(clientId) == {s \in sockets : s.tag = <<"mcp", clientId>>}

getMcpWebSockets == {s \in sockets : s.tag[1] = "mcp"}

\* a lookup by the tag of the default client id only
getLocalWebSocketDefaultOnly == {s \in sockets : s.tag = <<"local", "default">>}

getLocalWebSocket == {s \in sockets : s.tag[1] = "local"}

\* ctx.acceptWebSocket(server, [tag])
acceptWebSocket(tag) ==
    /\ Cardinality(sockets) < MaxSockets
    /\ LET used == {s.sid : s \in sockets}
           sid == CHOOSE i \in 1..MaxSockets :
                      i \notin used /\ \A j \in 1..(i - 1) : j \in used
       IN sockets' = sockets \cup {[sid |-> sid, tag |-> tag, closing |-> FALSE]}

\* url.pathname === '/' || url.pathname === '/health'
IsHealth(path) == path = <<"">> \/ path = <<"health">>

\* url.pathname === '/x' || url.pathname.startsWith('/x/')
IsUnder(path, x) == Len(path) >= 1 /\ path[1] = x

\* url.pathname.split('/')[2] without the fallback
ClientIdOfNoFallback(path) ==
    IF Len(path) >= 2 THEN path[2] ELSE "undefined"

\* url.pathname.split('/')[2] || 'default'
ClientIdOf(path) ==
    IF Len(path) >= 2 /\ path[2] # "" THEN path[2] ELSE "default"

(***************************************************************************)
(* fetch(): one action per stretch of code between two awaits.             *)
(***************************************************************************)
\* fetch() without the `if (!passphrase)` test
ClassifyNoPassCheck(path, pass) ==
    IF IsHealth(path)
    THEN IF pass # NoPass THEN "validate" ELSE "ok"
    ELSE IF path = <<"extension", "status">> THEN "extensionStatus"
    ELSE IF path = <<"local", "status">> THEN "localStatus"
    ELSE "validate"

\* fetch() before validatePassphrase: what the path and the passphrase lead to
Classify(path, pass) ==
    IF IsHealth(path)
    THEN IF pass # NoPass THEN "validate" ELSE "ok"
    ELSE IF path = <<"extension", "status">> THEN "extensionStatus"
    ELSE IF path = <<"local", "status">> THEN "localStatus"
    ELSE IF pass = NoPass THEN "unauthorized"
    ELSE "validate"

\* Response.json({ connected })
Connected(ws) == IF ws # {} THEN "connected:true" ELSE "connected:false"

\* fetch() up to its first await, or to its response when it awaits nothing;
\* `late` notes whether a validation had returned before the call arrived
FetchStart(path, pass) ==
    /\ BagCardinality(req) < MaxInFlight
    /\ LET q == [IdleRequest EXCEPT !.path = path, !.pass = pass,
                                    !.late = (firstPass # NoPass)]
           Arrive(q2) == req' = req (+) SetToBag({q2})
           class == Classify(path, pass)
       IN
       IF class = "ok"
       THEN Arrive([q EXCEPT !.pc = "done", !.status = 200, !.body = "OK"])
       ELSE IF class = "extensionStatus"
       THEN Arrive([q EXCEPT !.pc = "done", !.status = 200,
                             !.body = Connected(getExtensionWebSocket)])
       ELSE IF class = "localStatus"
       THEN Arrive([q EXCEPT !.pc = "done", !.status = 200,
                             !.body = Connected(getLocalWebSocket)])
       ELSE IF class = "unauthorized"
       THEN Arrive([q EXCEPT !.pc = "done", !.status = 401, !.body = "Passphrase required"])
       ELSE Arrive([q EXCEPT !.pc = "get"])
    /\ UNCHANGED <<auth, authWrites, firstPass, sockets, pingInterval>>
    /\ UNCHANGED <<browserVars, relayFileVars, wireVars, localVars>>

\* validatePassphrase: const stored = await this.ctx.storage.get('auth')
StorageGet(q) ==
    /\ BagIn(q, req)
    /\ q.pc = "get"
    /\ Step(q, [q EXCEPT !.pc = "digest", !.stored = auth])
    /\ UNCHANGED <<auth, authWrites, firstPass, sockets, pingInterval>>
    /\ UNCHANGED <<browserVars, relayFileVars, wireVars, localVars>>

\* validatePassphrase: const hash = await hashPassphrase(passphrase), in
\* either branch; with a stored record the comparison follows at once
Digest(q) ==
    /\ BagIn(q, req)
    /\ q.pc = "digest"
    /\ IF q.stored = NoAuth
       THEN Step(q, [q EXCEPT !.pc = "put"])
       ELSE Step(q, [q EXCEPT !.pc = "validated",
                     !.valid = (hashPassphrase(q.pass) = q.stored.passphraseHash)])
    /\ UNCHANGED <<auth, authWrites, firstPass, sockets, pingInterval>>
    /\ UNCHANGED <<browserVars, relayFileVars, wireVars, localVars>>

\* validatePassphrase: await this.ctx.storage.put('auth', {...}); return true
StoragePut(q) ==
    /\ BagIn(q, req)
    /\ q.pc = "put"
    /\ auth' = [passphraseHash |-> hashPassphrase(q.pass), createdAt |-> "Date.now()"]
    /\ authWrites' = authWrites + 1
    /\ firstPass' = IF firstPass = NoPass THEN q.pass ELSE firstPass
    /\ Step(q, [q EXCEPT !.pc = "validated", !.valid = TRUE])
    /\ UNCHANGED <<sockets, pingInterval>>
    /\ UNCHANGED <<browserVars, relayFileVars, wireVars, localVars>>

(***************************************************************************)
(* The upgrade handlers: synchronous, so each runs to its response.        *)
(***************************************************************************)
startPingInterval == pingInterval' = TRUE

\* handleExtensionUpgrade without the test for an existing socket
handleExtensionUpgradeUnchecked(q) ==
    /\ acceptWebSocket(<<"extension">>)
    /\ startPingInterval
    /\ Respond(q, 101, "")

handleExtensionUpgrade(q) ==
    IF getExtensionWebSocket # {}
    THEN /\ Respond(q, 409, "Extension already connected")
         /\ UNCHANGED <<sockets, pingInterval>>
    ELSE /\ acceptWebSocket(<<"extension">>)
         /\ startPingInterval
         /\ Respond(q, 101, "")

\* an upgrade that refuses the newcomer and drops the socket it found
handleMcpUpgradeEvicting(q, clientId) ==
    IF getMcpWebSocket(clientId) # {}
    THEN /\ Respond(q, 409, "Client ID already connected")
         /\ sockets' = sockets \ getMcpWebSocket(clientId)
         /\ UNCHANGED pingInterval
    ELSE /\ acceptWebSocket(<<"mcp", clientId>>)
         /\ Respond(q, 101, "")
         /\ UNCHANGED pingInterval

handleMcpUpgrade(q, clientId) ==
    IF getMcpWebSocket(clientId) # {}
    THEN /\ Respond(q, 409, "Client ID already connected")
         /\ UNCHANGED <<sockets, pingInterval>>
    ELSE /\ acceptWebSocket(<<"mcp", clientId>>)
         /\ Respond(q, 101, "")
         /\ UNCHANGED pingInterval

handleLocalUpgrade(q, clientId) ==
    IF getLocalWebSocket # {}
    THEN /\ Respond(q, 409, "Local client already connected")
         /\ UNCHANGED <<sockets, pingInterval>>
    ELSE /\ acceptWebSocket(<<"local", clientId>>)
         /\ startPingInterval
         /\ Respond(q, 101, "")

\* fetch() from the return of validatePassphrase to its response
Route(q) ==
    /\ BagIn(q, req)
    /\ q.pc = "validated"
    /\ LET path == q.path IN
       IF ~q.valid
       THEN /\ Respond(q, 403, "Invalid passphrase")
            /\ UNCHANGED <<sockets, pingInterval>>
       ELSE IF IsHealth(path)
       THEN /\ Respond(q, 200, "OK")
            /\ UNCHANGED <<sockets, pingInterval>>
       ELSE IF path = <<"extension">>
       THEN handleExtensionUpgrade(q)
       ELSE IF IsUnder(path, "local")
       THEN handleLocalUpgrade(q, ClientIdOf(path))
       ELSE IF IsUnder(path, "mcp")
       THEN handleMcpUpgrade(q, ClientIdOf(path))
       ELSE /\ Respond(q, 404, "Not Found")
            /\ UNCHANGED <<sockets, pingInterval>>
    /\ UNCHANGED <<auth, authWrites, firstPass>>
    /\ UNCHANGED <<browserVars, relayFileVars, wireVars, localVars>>

\* the client has collected the response
Retire(q) ==
    /\ BagIn(q, req)
    /\ q.pc = "done"
    /\ req' = req (-) SetToBag({q})
    /\ UNCHANGED <<auth, authWrites, firstPass, sockets, pingInterval>>
    /\ UNCHANGED <<browserVars, relayFileVars, wireVars, localVars>>

(***************************************************************************)
(* The target registry and the Browser's events.                           *)
(***************************************************************************)
SessionIds == {"s1", "s2"}
TargetIds == {"t1", "t2"}
Urls == {"u0", "u1"}
Titles == {"T0", "T1"}

\* TargetInfo, as far as the relay looks into it
TargetInfos == [targetId : TargetIds, url : Urls, title : Titles]

\* a message field that is absent
NoParams == [absent |-> TRUE]
NoSession == ""

HasParams(params) == "absent" \notin DOMAIN params

\* the position of the target under this sessionId, 0 if there is none
IndexOfSession(targets, sessionId) ==
    IF \E i \in 1..Len(targets) : targets[i].sessionId = sessionId
    THEN CHOOSE i \in 1..Len(targets) : targets[i].sessionId = sessionId
    ELSE 0

\* the position of the first target, in insertion order, with this targetId,
\* 0 if there is none
IndexOfTarget(targets, targetId) ==
    IF \E i \in 1..Len(targets) : targets[i].targetId = targetId
    THEN CHOOSE i \in 1..Len(targets) :
            /\ targets[i].targetId = targetId
            /\ \A j \in 1..(i - 1) : targets[j].targetId # targetId
    ELSE 0

\* a set that adds the target whether or not its key is there
MapSetAppending(targets, target) == Append(targets, target)

\* Map.set(sessionId, target): a key already there keeps its place
MapSet(targets, target) ==
    LET i == IndexOfSession(targets, target.sessionId)
    IN IF i = 0 THEN Append(targets, target) ELSE [targets EXCEPT ![i] = target]

\* Map.delete(sessionId)
MapDelete(targets, sessionId) ==
    LET Others(x) == x.sessionId # sessionId IN SelectSeq(targets, Others)

\* a loop that gives the info to the first target, whatever its targetId
ReplaceInfoFirst(targets, targetInfo) ==
    IF targets = <<>> THEN targets ELSE [targets EXCEPT ![1].targetInfo = targetInfo]

\* for (const target of values()) if (target.targetId === ...) { ...; break }
ReplaceInfo(targets, targetInfo) ==
    LET i == IndexOfTarget(targets, targetInfo.targetId)
    IN IF i = 0 THEN targets ELSE [targets EXCEPT ![i].targetInfo = targetInfo]

\* the top-frame branch of Page.frameNavigated
Navigated(targets, sessionId, frame) ==
    LET i == IndexOfSession(targets, sessionId)
    IN IF i = 0 THEN targets
       ELSE [targets EXCEPT
               ![i].targetInfo.url = frame.url,
               ![i].targetInfo.title =
                   IF frame.name # "" THEN frame.name ELSE targets[i].targetInfo.title]

\* handleExtensionMessage, forwardCDPEvent: the target lifecycle bookkeeping
TrackTargets(targets, event) ==
    IF event.method = "Target.attachedToTarget" /\ HasParams(event.params)
    THEN MapSet(targets, [sessionId |-> event.params.sessionId,
                          targetId |-> event.params.targetInfo.targetId,
                          targetInfo |-> event.params.targetInfo])
    ELSE IF event.method = "Target.detachedFromTarget" /\ HasParams(event.params)
    THEN MapDelete(targets, event.params.sessionId)
    ELSE IF event.method = "Target.targetInfoChanged" /\ HasParams(event.params)
    THEN ReplaceInfo(targets, event.params.targetInfo)
    ELSE IF event.method = "Page.frameNavigated" /\ event.sessionId # NoSession
            /\ HasParams(event.params)
    THEN IF event.params.frame.parentId = ""
         THEN Navigated(targets, event.sessionId, event.params.frame)
         ELSE targets
    ELSE targets

(***************************************************************************)
(* Frames the relay sends.  A frame is recorded with the socket it was     *)
(* handed to and whether send() took it: send() on a socket that is gone,  *)
(* or that the relay has close()d, delivers nothing.                       *)
(***************************************************************************)
\* the socket a continuation still holds after that socket has gone
Gone == 0

IsOpen(sid) == \E x \in sockets : x.sid = sid /\ ~x.closing

\* ws.send(JSON.stringify(msg)) on the socket with this id
Send(sid, msg) == [to |-> sid, ok |-> IsOpen(sid), msg |-> msg]

\* a set of socket ids as a sequence, lowest id first
RECURSIVE InOrder(_)
InOrder(sids) ==
    IF sids = {} THEN <<>>
    ELSE LET low == CHOOSE x \in sids : \A y \in sids : x <= y
         IN <<low>> \o InOrder(sids \ {low})

\* CDPEvent
CDPEvent(method, params, sessionId) ==
    [type |-> "event", method |-> method, params |-> params, sessionId |-> sessionId]

\* CDPResponse with a result
ResultResponse(id, sessionId, result) ==
    [type |-> "response", id |-> id, sessionId |-> sessionId, result |-> result]

\* CDPResponse with error: { message }
ErrorResponse(id, sessionId, message) ==
    [type |-> "response", id |-> id, sessionId |-> sessionId,
     error |-> [message |-> message]]

\* what one broadcast can put on the wire.  getMcpWebSockets() returns the
\* Agent sockets in no documented order, and send() on a socket the relay has
\* close()d either throws, which ends the loop where it stands, or drops the
\* frame.
broadcastToMcpClients(event) ==
    LET agents == getMcpWebSockets
        open == {x.sid : x \in {y \in agents : ~y.closing}}
        closed == {x.sid : x \in {y \in agents : y.closing}}
        ToAll(sids) == [i \in 1..Cardinality(sids) |-> Send(InOrder(sids)[i], event)]
    IN {ToAll(open \cup closed)}
       \cup {ToAll(before) \o <<Send(c, event)>> :
                before \in SUBSET open, c \in closed}

\* handleExtensionMessage, forwardCDPEvent branch
handleExtensionEvent(event) ==
    /\ getExtensionWebSocket # {}
    /\ connectedTargets' = TrackTargets(connectedTargets, event)
    /\ sent' \in broadcastToMcpClients(
                    CDPEvent(event.method, event.params, event.sessionId))
    /\ UNCHANGED <<pendingRequests, messageId, commands, awaiting, timers>>
    /\ UNCHANGED <<auth, authWrites, firstPass, req, sockets, pingInterval,
                   relayFileVars, wireVars, localVars>>

(***************************************************************************)
(* The command router.  A command is [id, method, params, sessionId]; a    *)
(* field the Agent left out is NoParams or NoSession.                      *)
(***************************************************************************)
\* params?.name, "" standing for undefined
Field(params, name) == IF name \in DOMAIN params THEN params[name] ELSE ""

\* the info as the registry holds it
NotMarked(targetInfo) == targetInfo

\* { ...target.targetInfo, attached: true }
Attached(targetInfo) ==
    [targetId |-> targetInfo.targetId, url |-> targetInfo.url,
     title |-> targetInfo.title, attached |-> TRUE]

\* the fixed descriptor of Browser.getVersion
RelayVersion ==
    [protocolVersion |-> "1.3", product |-> "Chrome/Cloudflare-Relay",
     revision |-> "1.0.0", userAgent |-> "Playwriter-Cloudflare-Relay/1.0.0",
     jsVersion |-> "V8"]

Return(result) == [kind |-> "return", result |-> result]
Throw(message) == [kind |-> "throw", message |-> message]
Forward == [kind |-> "forward"]

TargetIdRequiredError == <<"targetId is required for Target.attachToTarget">>
\* an error that does not name the target
TargetNotFoundPlain(targetId) == <<"Target not found">>

TargetNotFoundError(targetId) ==
    <<"Target ", targetId, " not found in connected targets">>
ExtensionNotConnectedError == <<"Extension not connected">>
\* a timeout error that does not name the method
TimeoutErrorShort(method) == <<"Extension request timeout">>

TimeoutError(method) == <<"Extension request timeout after ", "30000", "ms: ", method>>

\* the first target with this targetId, as a set of at most one entry
FindTarget(targets, targetId) ==
    LET i == IndexOfTarget(targets, targetId)
    IN IF i = 0 THEN {} ELSE {targets[i]}

\* a registry that is taken to hold no session
HasSessionNever(targets, sessionId) == FALSE

\* this.connectedTargets.has(sessionId)
HasSession(targets, sessionId) ==
    \E i \in 1..Len(targets) : targets[i].sessionId = sessionId

\* routeCdpCommand up to the call of sendToExtension: what the switch does
routeCdpCommand(command) ==
    LET method == command.method
        params == command.params
        sessionId == command.sessionId
        targetId == Field(params, "targetId")
    IN CASE method = "Browser.getVersion" -> Return(RelayVersion)
         [] method = "Browser.setDownloadBehavior" -> Return(EmptyMap)
         [] method = "Target.setAutoAttach" ->
                IF sessionId # NoSession THEN Forward ELSE Return(EmptyMap)
         [] method = "Target.setDiscoverTargets" -> Return(EmptyMap)
         [] method = "Target.attachToTarget" ->
                IF targetId = "" THEN Throw(TargetIdRequiredError)
                ELSE IF FindTarget(connectedTargets, targetId) # {}
                THEN Return([sessionId |->
                        (CHOOSE x \in FindTarget(connectedTargets, targetId) : TRUE).sessionId])
                ELSE Throw(TargetNotFoundError(targetId))
         [] method = "Target.getTargetInfo" ->
                IF targetId # "" /\ FindTarget(connectedTargets, targetId) # {}
                THEN Return([targetInfo |->
                        (CHOOSE x \in FindTarget(connectedTargets, targetId) : TRUE).targetInfo])
                ELSE IF sessionId # NoSession /\ HasSession(connectedTargets, sessionId)
                THEN Return([targetInfo |->
                        (CHOOSE x \in {connectedTargets[i] : i \in 1..Len(connectedTargets)} :
                            x.sessionId = sessionId).targetInfo])
                ELSE IF Len(connectedTargets) > 0
                THEN Return([targetInfo |-> connectedTargets[1].targetInfo])
                ELSE Return([targetInfo |-> NoParams])
         [] method = "Target.getTargets" ->
                Return([targetInfos |->
                    [i \in 1..Len(connectedTargets) |->
                        Attached(connectedTargets[i].targetInfo)]])
         [] method = "Target.detachFromTarget" ->
                IF Field(params, "sessionId") # ""
                   /\ ~HasSession(connectedTargets, Field(params, "sessionId"))
                THEN Return(EmptyMap)
                ELSE Forward
         [] OTHER -> Forward

\* the Target.attachedToTarget event the relay synthesizes
AttachedEvent(sessionId, targetInfo) ==
    CDPEvent("Target.attachedToTarget",
             [sessionId |-> sessionId, targetInfo |-> Attached(targetInfo),
              waitingForDebugger |-> FALSE],
             NoSession)

\* the Target.targetCreated event the relay synthesizes
TargetCreatedEvent(targetInfo) ==
    CDPEvent("Target.targetCreated", [targetInfo |-> Attached(targetInfo)], NoSession)

\* one targetCreated for every targetId, whatever the number of its sessions
DiscoverEventsPerTargetId(targets) ==
    LET First(i) == \A j \in 1..(i - 1) : targets[j].targetId # targets[i].targetId
        firsts == SelectSeq([i \in 1..Len(targets) |-> i], First)
    IN [k \in 1..Len(firsts) |-> TargetCreatedEvent(targets[firsts[k]].targetInfo)]

\* for (const target of this.connectedTargets.values()) send targetCreated
DiscoverEvents(targets) ==
    [i \in 1..Len(targets) |-> TargetCreatedEvent(targets[i].targetInfo)]

\* for (const target of this.connectedTargets.values()) send attachedToTarget
AutoAttachEvents(targets) ==
    [i \in 1..Len(targets) |->
        AttachedEvent(targets[i].sessionId, targets[i].targetInfo)]

\* the events handleMcpMessage sends the requester before its reply
SynthesizedEvents(command, result) ==
    IF command.method = "Target.setAutoAttach" /\ command.sessionId = NoSession
    THEN AutoAttachEvents(connectedTargets)
    ELSE IF command.method = "Target.setDiscoverTargets"
            /\ "discover" \in DOMAIN command.params
            /\ command.params.discover
    THEN DiscoverEvents(connectedTargets)
    ELSE IF command.method = "Target.attachToTarget"
            /\ Field(result, "sessionId") # ""
            /\ FindTarget(connectedTargets, Field(command.params, "targetId")) # {}
    THEN <<AttachedEvent(
             result.sessionId,
             (CHOOSE x \in FindTarget(connectedTargets,
                                      Field(command.params, "targetId")) : TRUE).targetInfo)>>
    ELSE <<>>

SendFailedError == <<"send failed">>

\* the try/catch of handleMcpMessage once routeCdpCommand has settled: the
\* events and the reply, or the error reply; a send that throws inside the
\* try block lands in the catch block, whose own send then throws as well
Answer(sid, command, outcome) ==
    IF outcome.kind = "throw"
    THEN <<Send(sid, ErrorResponse(command.id, command.sessionId, outcome.message))>>
    ELSE LET frames == SynthesizedEvents(command, outcome.result)
                         \o <<ResultResponse(command.id, command.sessionId,
                                             outcome.result)>>
         IN IF IsOpen(sid)
            THEN [i \in 1..Len(frames) |-> Send(sid, frames[i])]
            ELSE <<Send(sid, frames[1]),
                   Send(sid, ErrorResponse(command.id, command.sessionId,
                                           SendFailedError))>>

\* the command as the Agent sent it, under the relay's id
ForwardBare(id, command) ==
    [id |-> id, method |-> command.method, params |-> command.params,
     sessionId |-> command.sessionId]

\* the envelope sendToExtension builds
ForwardEnvelope(id, command) ==
    [id |-> id, method |-> "forwardCDPCommand",
     params |-> [method |-> command.method, params |-> command.params,
                 sessionId |-> command.sessionId]]

\* sendToExtension: allocate the id, send, set the deadline and leave the
\* promise pending
sendToExtension(s, command) ==
    LET id == messageId + 1
        extension == CHOOSE x \in getExtensionWebSocket : TRUE
    IN /\ messageId' = id
       /\ sent' = <<Send(extension.sid, ForwardEnvelope(id, command))>>
       /\ pendingRequests' =
             Put(pendingRequests, id,
                 [mcpClientId |-> s.tag[2], ws |-> s.sid, command |-> command])
       /\ timers' = timers \cup {id}
       /\ awaiting' = IF IsOpen(s.sid)
                      THEN awaiting \cup {<<s.sid, command.id>>}
                      ELSE awaiting

\* a handler that forwards every command to the Browser
handleMcpMessageForwardAll(s, method, params, sessionId) ==
    LET command == [id |-> commands + 1, method |-> method, params |-> params,
                    sessionId |-> sessionId]
    IN /\ s \in getMcpWebSockets
       /\ commands' = commands + 1
       /\ IF getExtensionWebSocket = {}
          THEN /\ sent' = <<Send(s.sid, ErrorResponse(command.id, sessionId,
                                                     ExtensionNotConnectedError))>>
               /\ UNCHANGED <<messageId, pendingRequests, awaiting, timers>>
          ELSE sendToExtension(s, command)
       /\ UNCHANGED connectedTargets
       /\ UNCHANGED <<auth, authWrites, firstPass, req, sockets, pingInterval,
                      relayFileVars, wireVars, localVars>>

\* a handler that tests for the Browser only when the command is to be
\* forwarded
handleMcpMessageRouteFirst(s, method, params, sessionId) ==
    LET command == [id |-> commands + 1, method |-> method, params |-> params,
                    sessionId |-> sessionId]
        outcome == routeCdpCommand(command)
    IN /\ s \in getMcpWebSockets
       /\ commands' = commands + 1
       /\ IF outcome.kind # "forward"
          THEN /\ sent' = Answer(s.sid, command, outcome)
               /\ UNCHANGED <<messageId, pendingRequests, awaiting, timers>>
          ELSE IF getExtensionWebSocket = {}
          THEN /\ sent' = <<Send(s.sid, ErrorResponse(command.id, sessionId,
                                                     ExtensionNotConnectedError))>>
               /\ UNCHANGED <<messageId, pendingRequests, awaiting, timers>>
          ELSE sendToExtension(s, command)
       /\ UNCHANGED connectedTargets
       /\ UNCHANGED <<auth, authWrites, firstPass, req, sockets, pingInterval,
                      relayFileVars, wireVars, localVars>>

\* webSocketMessage from an Agent: handleMcpMessage.  The Agent numbers its
\* commands; the relay reads the number and never interprets it.
handleMcpMessage(s, method, params, sessionId) ==
    LET command == [id |-> commands + 1, method |-> method, params |-> params,
                    sessionId |-> sessionId]
        outcome == routeCdpCommand(command)
    IN /\ s \in getMcpWebSockets
       /\ commands' = commands + 1
       /\ IF getExtensionWebSocket = {}
          THEN /\ sent' = <<Send(s.sid, ErrorResponse(command.id, sessionId,
                                                     ExtensionNotConnectedError))>>
               /\ UNCHANGED <<messageId, pendingRequests, awaiting, timers>>
          ELSE IF outcome.kind = "forward"
          THEN sendToExtension(s, command)
          ELSE /\ sent' = Answer(s.sid, command, outcome)
               /\ UNCHANGED <<messageId, pendingRequests, awaiting, timers>>
       /\ UNCHANGED connectedTargets
       /\ UNCHANGED <<auth, authWrites, firstPass, req, sockets, pingInterval,
                      relayFileVars, wireVars, localVars>>

\* handleMcpMessage for a command that carries the number `id`: an Agent
\* numbers its commands as it likes, two Agents may use the same number, and
\* an Agent does not reuse a number that it still waits for
handleMcpCommand(s, id, method, params, sessionId) ==
    LET command == [id |-> id, method |-> method, params |-> params,
                    sessionId |-> sessionId]
        outcome == routeCdpCommand(command)
    IN /\ s \in getMcpWebSockets
       /\ <<s.sid, id>> \notin awaiting
       /\ commands' = commands + 1
       /\ IF getExtensionWebSocket = {}
          THEN /\ sent' = <<Send(s.sid, ErrorResponse(command.id, sessionId,
                                                     ExtensionNotConnectedError))>>
               /\ UNCHANGED <<messageId, pendingRequests, awaiting, timers>>
          ELSE IF outcome.kind = "forward"
          THEN sendToExtension(s, command)
          ELSE /\ sent' = Answer(s.sid, command, outcome)
               /\ UNCHANGED <<messageId, pendingRequests, awaiting, timers>>
       /\ UNCHANGED connectedTargets
       /\ UNCHANGED <<auth, authWrites, firstPass, req, sockets, pingInterval,
                      relayFileVars, wireVars, localVars>>

\* a continuation that looks the requester up by its client id when the
\* call settles
ResumeByClientId(id, outcome) ==
    LET p == pendingRequests[id]
        now == getMcpWebSocket(p.mcpClientId)
        to == IF now = {} THEN p.ws ELSE (CHOOSE x \in now : TRUE).sid
    IN /\ pendingRequests' = Delete(pendingRequests, id)
       /\ sent' = Answer(to, p.command, outcome)
       /\ awaiting' = awaiting \ {<<p.ws, p.command.id>>}

\* a continuation that looks the requester up by the command's number
ResumeByCommandId(id, outcome) ==
    LET p == pendingRequests[id]
        same == {x \in DOMAIN pendingRequests :
                    pendingRequests[x].command.id = p.command.id}
        first == pendingRequests[InOrder(same)[1]]
    IN /\ pendingRequests' = Delete(pendingRequests, id)
       /\ sent' = Answer(first.ws, p.command, outcome)
       /\ awaiting' = awaiting \ {<<p.ws, p.command.id>>}

\* a settled call of sendToExtension resumes handleMcpMessage
Resume(id, outcome) ==
    LET p == pendingRequests[id]
    IN /\ pendingRequests' = Delete(pendingRequests, id)
       /\ sent' = Answer(p.ws, p.command, outcome)
       /\ awaiting' = awaiting \ {<<p.ws, p.command.id>>}

\* a resolve that leaves the timer set
clearTimeoutNot(id) == timers' = timers

\* clearTimeout(timeoutId), in the resolve and reject of a pending entry
clearTimeout(id) == timers' = timers \ {id}

\* handleExtensionMessage, response branch: a message with an id and no
\* method; error is the Browser's error string, "" when it sent a result
handleExtensionResponse(id, result, error) ==
    /\ getExtensionWebSocket # {}
    /\ IF id \in DOMAIN pendingRequests
       THEN /\ Resume(id, IF error # "" THEN Throw(<<error>>) ELSE Return(result))
            /\ clearTimeout(id)
       ELSE /\ sent' = <<>>
            /\ UNCHANGED <<pendingRequests, awaiting, timers>>
    /\ UNCHANGED <<connectedTargets, messageId, commands>>
    /\ UNCHANGED <<auth, authWrites, firstPass, req, sockets, pingInterval,
                   relayFileVars, wireVars, localVars>>

\* a deadline that drops the call and tells the caller nothing
extensionTimeoutSilent(id) ==
    /\ id \in timers
    /\ timers' = timers \ {id}
    /\ pendingRequests' = Delete(pendingRequests, id)
    /\ sent' = <<>>
    /\ UNCHANGED <<connectedTargets, messageId, commands, awaiting>>
    /\ UNCHANGED <<auth, authWrites, firstPass, req, sockets, pingInterval,
                   relayFileVars, wireVars, localVars>>

\* the setTimeout callback of sendToExtension, which runs unless the timer
\* was cleared: pendingRequests.delete(id), then reject(...), which does
\* nothing to a promise that is settled
extensionTimeout(id) ==
    /\ id \in timers
    /\ timers' = timers \ {id}
    /\ IF id \in DOMAIN pendingRequests
       THEN Resume(id, Throw(TimeoutError(pendingRequests[id].command.method)))
       ELSE /\ sent' = <<>>
            /\ UNCHANGED <<pendingRequests, awaiting>>
    /\ UNCHANGED <<connectedTargets, messageId, commands>>
    /\ UNCHANGED <<auth, authWrites, firstPass, req, sockets, pingInterval,
                   relayFileVars, wireVars, localVars>>

\* a frame that is not JSON, and the envelopes a back-end peer sends besides
\* responses and events
Malformed == [malformed |-> TRUE]
Pong == [method |-> "pong"]
Log == [method |-> "log", params |-> [level |-> "info", args |-> <<"x">>]]

\* a handler that answers a frame it cannot parse with an error
webSocketMessageReplying(s, frame) ==
    /\ s \in sockets
    /\ frame = Malformed \/ s.tag[1] \in {"extension", "local"}
    /\ sent' = IF frame = Malformed
               THEN <<Send(s.sid, [error |-> [message |-> "Invalid JSON"]])>>
               ELSE <<>>
    /\ UNCHANGED <<connectedTargets, pendingRequests, messageId, commands, awaiting,
                   timers>>
    /\ UNCHANGED <<admissionVars, relayFileVars, wireVars, localVars>>

\* webSocketMessage(ws, message) for a frame that JSON.parse rejects, from
\* any socket, and for a pong or log envelope from the Browser or the Local
\* peer: the catch block, handleExtensionMessage and handleLocalMessage return
webSocketMessage(s, frame) ==
    /\ s \in sockets
    /\ frame = Malformed \/ s.tag[1] \in {"extension", "local"}
    /\ sent' = <<>>
    /\ UNCHANGED <<connectedTargets, pendingRequests, messageId, commands, awaiting,
                   timers>>
    /\ UNCHANGED <<admissionVars, relayFileVars, wireVars, localVars>>

(***************************************************************************)
(* Socket close.                                                           *)
(***************************************************************************)
\* the ids of a pending table, lowest first: the order a Map iterates in,
\* since the ids are allocated in increasing order
PendingIds(pending) == InOrder(DOMAIN pending)

\* pending.reject(new Error(message)) for every entry: each caller's catch
\* block sends its error reply once the closing handler has finished, to a
\* socket that handler has close()d or that was gone before
RejectAll(pending, message) ==
    [i \in 1..Cardinality(DOMAIN pending) |->
        LET p == pending[PendingIds(pending)[i]]
        IN [to |-> p.ws, ok |-> FALSE,
            msg |-> ErrorResponse(p.command.id, p.command.sessionId, message)]]

ConnectionClosedError == <<"Extension connection closed">>

\* a cleanup that rejects the pending calls and keeps the targets
cleanupExtensionStateKeepTargets ==
    /\ connectedTargets' = connectedTargets
    /\ pendingRequests' = EmptyMap
    /\ timers' = {}

\* every pending call is rejected, which clears its timer; the registry and
\* the table are cleared
cleanupExtensionState ==
    /\ connectedTargets' = <<>>
    /\ pendingRequests' = EmptyMap
    /\ timers' = {}

\* mcpWs.close(1000, 'Extension disconnected')
CloseFrame == [type |-> "close", code |-> 1000, reason |-> "Extension disconnected"]

LocalConnectionClosedError == <<"Local client connection closed">>

\* pending.reject(new Error(message)) for every entry of the Local table
RejectAllLocal(pending, message) == [id \in DOMAIN pending |-> message]

\* a multiplexer whose counter starts again when its table is empty
sendToLocalClientRestarting(op, method, path, content, expectedMtime) ==
    IF getLocalWebSocket = {}
    THEN /\ thrown' = <<"Local client not connected">>
         /\ UNCHANGED <<localMessageId, pendingLocalRequests, toLocal>>
    ELSE LET id == IF pendingLocalRequests = EmptyMap THEN 1 ELSE localMessageId + 1 IN
         /\ localMessageId' = id
         /\ toLocal' = Append(toLocal,
                [id |-> id, method |-> method, path |-> path,
                 content |-> content, expectedMtime |-> expectedMtime])
         /\ pendingLocalRequests' =
                Put(pendingLocalRequests, id,
                    [op |-> op, path |-> path, expectedMtime |-> expectedMtime,
                     readBefore |-> path \in readSince,
                     basis |-> IF path \in DOMAIN ledgerBy THEN ledgerBy[path]
                               ELSE "none"])
         /\ thrown' = <<>>

\* a cleanup that keeps the ledger
cleanupLocalStateKeepLedger ==
    /\ UNCHANGED fileReadTimestamps
    /\ rejected' = RejectAllLocal(pendingLocalRequests, LocalConnectionClosedError)
    /\ pendingLocalRequests' = EmptyMap

\* a cleanup that drops the pending calls and tells their callers nothing
cleanupLocalStateSilent ==
    /\ fileReadTimestamps' = EmptyMap
    /\ rejected' = EmptyMap
    /\ pendingLocalRequests' = EmptyMap

\* every pending call is rejected; the ledger and the table are cleared
cleanupLocalState ==
    /\ fileReadTimestamps' = EmptyMap
    /\ rejected' = RejectAllLocal(pendingLocalRequests, LocalConnectionClosedError)
    /\ pendingLocalRequests' = EmptyMap

\* a test that looks for the Browser only
NoBackendBrowserOnly(registered) ==
    {x \in registered : x.tag = <<"extension">>} = {}

\* !this.getExtensionWebSocket() && !this.getLocalWebSocket(), over the
\* sockets that are registered when webSocketClose runs
NoBackend(registered) ==
    /\ {x \in registered : x.tag = <<"extension">>} = {}
    /\ {x \in registered : x.tag[1] = "local"} = {}

\* { method: 'ping' }
Ping == [method |-> "ping"]

\* the callback of setInterval: one ping to the Browser and one to the Local
\* peer, whichever is registered
pingTick ==
    /\ pingInterval
    /\ sent' = [i \in 1..Cardinality(getExtensionWebSocket) |->
                   Send((CHOOSE x \in getExtensionWebSocket : TRUE).sid, Ping)]
               \o [i \in 1..Cardinality(getLocalWebSocket) |->
                      Send((CHOOSE x \in getLocalWebSocket : TRUE).sid, Ping)]
    /\ UNCHANGED <<connectedTargets, pendingRequests, messageId, commands, awaiting,
                   timers>>
    /\ UNCHANGED <<admissionVars, relayFileVars, wireVars, localVars>>

\* a table that loses the calls of the closed socket
OrphanDropped(pending, sid) ==
    LET kept == {id \in DOMAIN pending : pending[id].ws # sid}
    IN [id \in kept |-> pending[id]]

\* the close of an Agent's socket leaves the table alone: the calls that
\* Agent's commands wait in stay, and the socket they hold is gone
Orphan(pending, sid) ==
    [id \in DOMAIN pending |->
        IF pending[id].ws = sid THEN [pending[id] EXCEPT !.ws = Gone] ELSE pending[id]]

\* webSocketClose(ws): the registry no longer returns ws when it runs
webSocketClose(s) ==
    /\ s \in sockets
    /\ LET rest == sockets \ {s}
           isExtension == s.tag = <<"extension">>
           isLocal == s.tag[1] = "local"
           after == IF isExtension
                    THEN {IF x.tag[1] = "mcp" THEN [x EXCEPT !.closing = TRUE] ELSE x : x \in rest}
                    ELSE rest
       IN /\ sockets' = after
          /\ IF isExtension
             THEN /\ cleanupExtensionState
                  /\ sent' = LET agents == {x.sid : x \in getMcpWebSockets}
                             IN [i \in 1..Cardinality(agents) |->
                                    Send(InOrder(agents)[i], CloseFrame)]
                                \o RejectAll(pendingRequests, ConnectionClosedError)
                  /\ awaiting' = {}
             ELSE /\ connectedTargets' = connectedTargets
                  /\ pendingRequests' = Orphan(pendingRequests, s.sid)
                  /\ sent' = <<>>
                  /\ awaiting' = {a \in awaiting : a[1] # s.sid}
                  /\ UNCHANGED timers
          /\ UNCHANGED <<messageId, commands>>
          /\ IF isLocal
             THEN /\ cleanupLocalState
                  /\ readSince' = {}
                  /\ ledgerBy' = EmptyMap
                  /\ toLocal' = <<>>
                  /\ fromLocal' = <<>>
             ELSE UNCHANGED <<fileReadTimestamps, pendingLocalRequests, rejected,
                              readSince, ledgerBy, toLocal, fromLocal>>
          /\ pingInterval' = IF NoBackend(after) THEN FALSE ELSE pingInterval
    /\ UNCHANGED <<auth, authWrites, firstPass, req, localMessageId, thrown, localVars>>

(***************************************************************************)
(* The Local command interface of the relay.                               *)
(***************************************************************************)
\* error messages, as the pieces of their template strings
NoError == <<>>
NotConnectedError == <<"Local client not connected">>
NotReadError(path) == <<"Cannot write to ", path, ": file has not been read yet. ...">>

\* what pendingLocalRequests holds for a call: the promise to settle;
\* `readBefore` and `basis` note, for the properties, whether the path had been
\* read when the call was made, and which kind of call set the ledger entry
\* the call used
NewCall(op, path, expectedMtime) ==
    [op |-> op, path |-> path, expectedMtime |-> expectedMtime,
     readBefore |-> path \in readSince,
     basis |-> IF path \in DOMAIN ledgerBy THEN ledgerBy[path] ELSE "none"]

\* sendToLocalClient: throws without a Local socket, else allocates the id,
\* sends the command and leaves the promise pending
sendToLocalClient(op, method, path, content, expectedMtime) ==
    IF getLocalWebSocket = {}
    THEN /\ thrown' = NotConnectedError
         /\ UNCHANGED <<localMessageId, pendingLocalRequests, toLocal>>
    ELSE LET id == localMessageId + 1 IN
         /\ localMessageId' = id
         /\ toLocal' = Append(toLocal,
                [id |-> id, method |-> method, path |-> path,
                 content |-> content, expectedMtime |-> expectedMtime])
         /\ pendingLocalRequests' =
                Put(pendingLocalRequests, id, NewCall(op, path, expectedMtime))
         /\ thrown' = NoError

\* readFile(path), up to its await
readFile(path) ==
    /\ sendToLocalClient("read", "file.read", path, "", Undefined)
    /\ UNCHANGED <<fileReadTimestamps, rejected, readSince, ledgerBy, fromLocal>>
    /\ UNCHANGED <<admissionVars, browserVars, localVars>>

\* this.fileReadTimestamps.get(path), undefined without an entry
lastReadMtime(path) ==
    IF path \in DOMAIN fileReadTimestamps THEN fileReadTimestamps[path] ELSE Undefined

\* a test that no value of lastReadMtime meets
NeverReadNever(path) == FALSE

\* lastReadMtime === undefined
NeverRead(path) == lastReadMtime(path) = Undefined

\* writeFile(path, content), up to its await or to its throw
writeFile(path, content) ==
    /\ IF NeverRead(path)
       THEN /\ thrown' = NotReadError(path)
            /\ UNCHANGED <<localMessageId, pendingLocalRequests, toLocal>>
       ELSE sendToLocalClient("write", "file.write", path, content, lastReadMtime(path))
    /\ UNCHANGED <<fileReadTimestamps, rejected, readSince, ledgerBy, fromLocal>>
    /\ UNCHANGED <<admissionVars, browserVars, localVars>>

\* the method of a call to the Local peer
MethodOf(op) == IF op = "read" THEN "file.read" ELSE "file.write"

LocalTimeoutError(method) ==
    <<"Local client request timeout after ", "30000", "ms: ", method>>

\* a deadline that forgets the path of the call it rejects
localTimeoutForgetting(id) ==
    /\ id \in DOMAIN pendingLocalRequests
    /\ pendingLocalRequests' = Delete(pendingLocalRequests, id)
    /\ rejected' = Put(EmptyMap, id,
                       LocalTimeoutError(MethodOf(pendingLocalRequests[id].op)))
    /\ fileReadTimestamps' = Delete(fileReadTimestamps, pendingLocalRequests[id].path)
    /\ UNCHANGED <<localMessageId, thrown, readSince, ledgerBy>>
    /\ UNCHANGED <<admissionVars, browserVars, wireVars, localVars>>

\* sendToLocalClient's setTimeout callback
localTimeout(id) ==
    /\ id \in DOMAIN pendingLocalRequests
    /\ pendingLocalRequests' = Delete(pendingLocalRequests, id)
    /\ rejected' = Put(EmptyMap, id,
                       LocalTimeoutError(MethodOf(pendingLocalRequests[id].op)))
    /\ UNCHANGED <<fileReadTimestamps, localMessageId, thrown, readSince, ledgerBy>>
    /\ UNCHANGED <<admissionVars, browserVars, wireVars, localVars>>

\* a handler that forgets the path of a call the Local peer answers with an
\* error
handleLocalResponseForgetting ==
    /\ getLocalWebSocket # {}
    /\ fromLocal # <<>>
    /\ fromLocal' = Tail(fromLocal)
    /\ LET response == Head(fromLocal) IN
       IF response.id \in DOMAIN pendingLocalRequests
       THEN LET call == pendingLocalRequests[response.id] IN
            /\ pendingLocalRequests' = Delete(pendingLocalRequests, response.id)
            /\ rejected' = IF response.error # ""
                            THEN Put(EmptyMap, response.id, <<response.error>>)
                            ELSE EmptyMap
            /\ IF response.error # ""
               THEN /\ fileReadTimestamps' = Delete(fileReadTimestamps, call.path)
                    /\ UNCHANGED <<readSince, ledgerBy>>
               ELSE IF call.op = "bash"
               THEN UNCHANGED <<fileReadTimestamps, readSince, ledgerBy>>
               ELSE /\ fileReadTimestamps' =
                          Put(fileReadTimestamps, call.path, response.mtime)
                    /\ ledgerBy' = Put(ledgerBy, call.path, call.op)
                    /\ readSince' = IF call.op = "read"
                                    THEN readSince \cup {call.path}
                                    ELSE readSince
       ELSE UNCHANGED <<fileReadTimestamps, pendingLocalRequests, rejected, readSince,
                        ledgerBy>>
    /\ UNCHANGED <<localMessageId, thrown, toLocal>>
    /\ UNCHANGED <<admissionVars, browserVars, localVars>>

\* webSocketMessage on the Local socket with a response frame: handleLocalMessage
\* settles the pending promise, and readFile or writeFile resumes at once
handleLocalResponse ==
    /\ getLocalWebSocket # {}
    /\ fromLocal # <<>>
    /\ fromLocal' = Tail(fromLocal)
    /\ LET response == Head(fromLocal) IN
       IF response.id \in DOMAIN pendingLocalRequests
       THEN LET call == pendingLocalRequests[response.id] IN
            /\ pendingLocalRequests' = Delete(pendingLocalRequests, response.id)
            /\ rejected' = IF response.error # ""
                            THEN Put(EmptyMap, response.id, <<response.error>>)
                            ELSE EmptyMap
            /\ IF response.error # "" \/ call.op = "bash"
               THEN UNCHANGED <<fileReadTimestamps, readSince, ledgerBy>>
               ELSE /\ fileReadTimestamps' =
                          Put(fileReadTimestamps, call.path, response.mtime)
                    /\ ledgerBy' = Put(ledgerBy, call.path, call.op)
                    /\ readSince' = IF call.op = "read"
                                    THEN readSince \cup {call.path}
                                    ELSE readSince
       ELSE UNCHANGED <<fileReadTimestamps, pendingLocalRequests, rejected, readSince,
                        ledgerBy>>
    /\ UNCHANGED <<localMessageId, thrown, toLocal>>
    /\ UNCHANGED <<admissionVars, browserVars, localVars>>

(***************************************************************************)
(* LocalClient: the Local peer's side of the socket.                       *)
(***************************************************************************)
\* this.ws?.readyState === WebSocket.OPEN
LocalClientOpen == \E s \in sockets : s.tag[1] = "local"

\* ws.on('message'): handleMessage parses the frame and starts handleCommand,
\* which is not awaited, so commands overlap
LocalReceive ==
    /\ toLocal # <<>>
    /\ Head(toLocal).method # "bash.execute"
    /\ toLocal' = Tail(toLocal)
    /\ localTasks' = localTasks \cup
            {[id |-> Head(toLocal).id, method |-> Head(toLocal).method,
              path |-> Head(toLocal).path, content |-> Head(toLocal).content,
              expectedMtime |-> Head(toLocal).expectedMtime,
              pc |-> "stat", stat |-> Undefined]}
    /\ UNCHANGED <<fromLocal, fs>>
    /\ UNCHANGED <<admissionVars, browserVars, relayFileVars, clientVars>>

\* handleCommand's this.send(response): dropped unless the socket is open;
\* `observed` notes, for the properties, the mtime the command's first stat found
LocalReply(task, observed, error, mtime) ==
    /\ localTasks' = localTasks \ {task}
    /\ fromLocal' = IF LocalClientOpen
                    THEN Append(fromLocal,
                           [id |-> task.id, error |-> error, mtime |-> mtime,
                            observed |-> observed])
                    ELSE fromLocal

LocalAdvance(task, task2) == localTasks' = (localTasks \ {task}) \cup {task2}

\* handleFileRead: const stat = await fs.promises.stat(absolutePath)
LocalReadStat(task) ==
    /\ task \in localTasks
    /\ task.method = "file.read" /\ task.pc = "stat"
    /\ IF fs[task.path] = NoFile
       THEN LocalReply(task, task.stat, "ENOENT", Undefined)
       ELSE /\ LocalAdvance(task, [task EXCEPT !.pc = "readFile",
                                               !.stat = fs[task.path]])
            /\ UNCHANGED fromLocal
    /\ UNCHANGED <<toLocal, fs>>
    /\ UNCHANGED <<admissionVars, browserVars, relayFileVars, clientVars>>

\* handleFileRead: const content = await fs.promises.readFile(...); return
LocalReadFile(task) ==
    /\ task \in localTasks
    /\ task.method = "file.read" /\ task.pc = "readFile"
    /\ IF fs[task.path] = NoFile
       THEN LocalReply(task, task.stat, "ENOENT", Undefined)
       ELSE LocalReply(task, task.stat, "", task.stat)
    /\ UNCHANGED <<toLocal, fs>>
    /\ UNCHANGED <<admissionVars, browserVars, relayFileVars, clientVars>>

Abs(x) == IF x < 0 THEN 0 - x ELSE x

\* a tolerance of two units
MtimeConflictWide(mtimeMs, expectedMtime) == Abs(mtimeMs - expectedMtime) > 2

\* Math.abs(stat.mtimeMs - params.expectedMtime) > 1
MtimeConflict(mtimeMs, expectedMtime) == Abs(mtimeMs - expectedMtime) > 1

ModifiedError == "File has been modified since last read"

\* handleFileWrite: the mtime validation; ENOENT is swallowed, and without an
\* expectedMtime there is no validation
LocalWriteStat(task) ==
    /\ task \in localTasks
    /\ task.method = "file.write" /\ task.pc = "stat"
    /\ IF task.expectedMtime # Undefined /\ fs[task.path] # NoFile
          /\ MtimeConflict(fs[task.path], task.expectedMtime)
       THEN LocalReply(task, fs[task.path], ModifiedError, Undefined)
       ELSE /\ LocalAdvance(task,
                  [task EXCEPT !.pc = "writeFile",
                               !.stat = IF task.expectedMtime # Undefined
                                        THEN fs[task.path] ELSE Undefined])
            /\ UNCHANGED fromLocal
    /\ UNCHANGED <<toLocal, fs>>
    /\ UNCHANGED <<admissionVars, browserVars, relayFileVars, clientVars>>

\* handleFileWrite: await mkdir(dir); await fs.promises.writeFile(...); the
\* file gets the time of the write, `mtime`, as its modification time
LocalWriteFile(task, mtime) ==
    /\ task \in localTasks
    /\ task.method = "file.write" /\ task.pc = "writeFile"
    /\ fs' = [fs EXCEPT ![task.path] = mtime]
    /\ LocalAdvance(task, [task EXCEPT !.pc = "stat2"])
    /\ UNCHANGED <<toLocal, fromLocal>>
    /\ UNCHANGED <<admissionVars, browserVars, relayFileVars, clientVars>>

\* handleFileWrite: const stat = await fs.promises.stat(...); return
LocalWriteStat2(task) ==
    /\ task \in localTasks
    /\ task.method = "file.write" /\ task.pc = "stat2"
    /\ IF fs[task.path] = NoFile
       THEN LocalReply(task, task.stat, "ENOENT", Undefined)
       ELSE LocalReply(task, task.stat, "", fs[task.path])
    /\ UNCHANGED <<toLocal, fs>>
    /\ UNCHANGED <<admissionVars, browserVars, relayFileVars, clientVars>>

(***************************************************************************)
(* The Local machine besides LocalClient.                                  *)
(***************************************************************************)
\* another program writes the file, at time `mtime`; changes that no command
\* is there to see are left out
ExternalWrite(path, mtime) ==
    /\ localTasks # {}
    /\ fs[path] # mtime
    /\ fs' = [fs EXCEPT ![path] = mtime]
    /\ UNCHANGED localTasks
    /\ UNCHANGED <<admissionVars, browserVars, relayFileVars, wireVars, clientVars>>

\* another program removes the file
ExternalRemove(path) ==
    /\ localTasks # {}
    /\ fs[path] # NoFile
    /\ fs' = [fs EXCEPT ![path] = NoFile]
    /\ UNCHANGED localTasks
    /\ UNCHANGED <<admissionVars, browserVars, relayFileVars, wireVars, clientVars>>

(***************************************************************************)
(* bash.execute.  Time is counted in units of TimeUnit milliseconds from   *)
(* the moment the relay sends the command; a frame is delivered within the *)
(* unit it was sent in, and a timer fires in the unit it is due in.        *)
(***************************************************************************)
TimeUnit == 5000

\* a number that passes `x ? ... : ...` and `x || ...`
Truthy(x) == x # Undefined /\ x # 0

\* executeBash: options?.timeout ? options.timeout + 5000 : 30000
RelayDeadline(timeout) == IF Truthy(timeout) THEN timeout + 5000 ELSE 30000

\* handleBashExecute: params.timeout || 30000
LocalCommandTimeout(timeout) == IF Truthy(timeout) THEN timeout ELSE 30000

\* executeBash(command, { timeout }), up to its await: `timeout` is Undefined
\* when the caller leaves it out, and JSON.stringify then leaves it out of
\* the frame.  The frame's params are kept in `bash`.
executeBash(timeout) ==
    /\ bash.phase \in {"none", "replied"}
    /\ sendToLocalClient("bash", "bash.execute", "", "", Undefined)
    /\ bash' = IF getLocalWebSocket = {} THEN bash
               ELSE [phase |-> "sent", id |-> localMessageId + 1,
                     timeout |-> timeout, deadline |-> RelayDeadline(timeout),
                     elapsed |-> 0, limit |-> Undefined, running |-> 0,
                     exitCode |-> Undefined]
    /\ UNCHANGED <<fileReadTimestamps, rejected, readSince, ledgerBy, fromLocal>>
    /\ UNCHANGED <<admissionVars, browserVars, localTasks, fs, client>>

\* handleMessage, handleCommand and handleBashExecute up to the return of the
\* promise: the child is spawned and the kill timer is set
handleBashExecute ==
    /\ toLocal # <<>>
    /\ Head(toLocal).method = "bash.execute"
    /\ toLocal' = Tail(toLocal)
    /\ localTasks' = localTasks \cup
            {[id |-> Head(toLocal).id, method |-> Head(toLocal).method,
              path |-> Head(toLocal).path, content |-> Head(toLocal).content,
              expectedMtime |-> Head(toLocal).expectedMtime,
              pc |-> "running", stat |-> Undefined]}
    /\ bash' = [bash EXCEPT !.phase = "running",
                            !.limit = LocalCommandTimeout(bash.timeout),
                            !.running = 0]
    /\ UNCHANGED <<fromLocal, fs, client>>
    /\ UNCHANGED <<admissionVars, browserVars, relayFileVars>>

\* child.on('close') before the kill timer fires: clearTimeout, and the
\* result carries the child's exit code
childClose(task, code) ==
    /\ task \in localTasks
    /\ task.method = "bash.execute" /\ task.pc = "running"
    /\ bash.running < bash.limit
    /\ LocalReply(task, Undefined, "", Undefined)
    /\ bash' = [bash EXCEPT !.phase = "replied", !.exitCode = code]
    /\ UNCHANGED <<toLocal, fs, client>>
    /\ UNCHANGED <<admissionVars, browserVars, relayFileVars>>

\* the kill timer of handleBashExecute: killed = true, child.kill('SIGKILL'),
\* and the close that follows resolves with exit code 124
childKill(task) ==
    /\ task \in localTasks
    /\ task.method = "bash.execute" /\ task.pc = "running"
    /\ bash.running = bash.limit
    /\ LocalReply(task, Undefined, "", Undefined)
    /\ bash' = [bash EXCEPT !.phase = "replied", !.exitCode = 124]
    /\ UNCHANGED <<toLocal, fs, client>>
    /\ UNCHANGED <<admissionVars, browserVars, relayFileVars>>

\* sendToLocalClient's setTimeout callback for the bash.execute call, when
\* its deadline has come
executeBashTimeout ==
    /\ bash.phase # "none"
    /\ bash.id \in DOMAIN pendingLocalRequests
    /\ bash.elapsed = bash.deadline
    /\ pendingLocalRequests' = Delete(pendingLocalRequests, bash.id)
    /\ rejected' = Put(EmptyMap, bash.id,
                       <<"Local client request timeout after ", bash.deadline,
                         "ms: ", "bash.execute">>)
    /\ UNCHANGED <<fileReadTimestamps, localMessageId, thrown, readSince, ledgerBy>>
    /\ UNCHANGED <<admissionVars, browserVars, wireVars, localVars>>

\* TimeUnit milliseconds pass: no frame is in flight and no timer is due
Tick ==
    /\ bash.phase \in {"running", "replied"}
    /\ toLocal = <<>> /\ fromLocal = <<>>
    /\ LET pending == bash.id \in DOMAIN pendingLocalRequests
           running == bash.phase = "running"
       IN /\ pending \/ running
          /\ ~(pending /\ bash.elapsed = bash.deadline)
          /\ ~(running /\ bash.running = bash.limit)
          /\ bash' = [bash EXCEPT
                        !.elapsed = IF pending THEN @ + TimeUnit ELSE @,
                        !.running = IF running THEN @ + TimeUnit ELSE @]
    /\ UNCHANGED <<localTasks, fs, client>>
    /\ UNCHANGED <<admissionVars, browserVars, relayFileVars, wireVars>>

(***************************************************************************)
(* LocalClient's connection: connect, the socket's events, the ping timer, *)
(* the reconnect timer and disconnect.  The relay is the environment here:  *)
(* a connection opens or fails, a ping is answered or not, a socket closes. *)
(* A socket is "connecting", "open" or "closing" (terminate()d, close()d or *)
(* failed) until its 'close' event is emitted.                             *)
(***************************************************************************)
\* stopPingInterval()
LocalStopPingInterval(c) == [c EXCEPT !.pingInterval = FALSE]

\* a start that leaves pongReceived as the last socket left it
LocalStartPingIntervalStale(c) == [c EXCEPT !.pingInterval = TRUE]

\* startPingInterval(): stop, this.pongReceived = true, setInterval
LocalStartPingInterval(c) == [c EXCEPT !.pingInterval = TRUE, !.pongReceived = TRUE]

\* a schedule that sets a timer whether or not one is pending
scheduleReconnectAlways(c) == [c EXCEPT !.reconnectTimeout = TRUE, !.timeouts = @ + 1]

\* scheduleReconnect(): nothing while a timer is pending, else setTimeout
scheduleReconnect(c) ==
    IF c.reconnectTimeout THEN c
    ELSE [c EXCEPT !.reconnectTimeout = TRUE, !.timeouts = @ + 1]

\* one more connection may be made
MayConnect(c) == c.ws # NoSocket \/ c.created < MaxClientSockets

\* the relay keeps this socket up
KeptUp(id) == id = MaxClientSockets

\* connect(): 'Already connected' while this.ws is set, else a new socket
connect(c) ==
    IF c.ws # NoSocket THEN c
    ELSE [c EXCEPT !.ws = c.created + 1, !.created = @ + 1,
                   !.socks = Put(@, c.created + 1, "connecting")]

\* the variables LocalClient's connection handling leaves alone
ClientOnly ==
    UNCHANGED <<admissionVars, browserVars, relayFileVars, wireVars, localTasks, fs,
                bash>>

\* the program that owns the LocalClient calls connect(), at any time before
\* it calls disconnect(): shouldReconnect is never set back, so that a client
\* that was disconnected is not one to connect again
LocalUserConnect ==
    /\ client.shouldReconnect
    /\ MayConnect(client)
    /\ client' = connect(client)
    /\ ClientOnly

\* ws.on('open')
LocalOpen(id) ==
    /\ id \in DOMAIN client.socks
    /\ client.socks[id] = "connecting"
    /\ client' = [LocalStartPingInterval(client) EXCEPT !.socks[id] = "open"]
    /\ ClientOnly

\* the setInterval callback of startPingInterval
LocalPingTick ==
    /\ client.pingInterval
    /\ KeptUp(client.ws) => client.ws \notin client.pingOut
    /\ client' =
          IF client.ws = NoSocket \/ client.socks[client.ws] # "open"
          THEN client
          ELSE IF ~client.pongReceived
          THEN [client EXCEPT !.socks[client.ws] = "closing", !.last = "terminate"]
          ELSE [client EXCEPT !.pongReceived = FALSE, !.pingOut = @ \cup {client.ws}]
    /\ ClientOnly

\* ws.on('pong'): the relay's end has answered the ping
LocalPong(id) ==
    /\ id \in DOMAIN client.socks
    /\ client.socks[id] = "open"
    /\ id \in client.pingOut
    /\ client' = [client EXCEPT !.pongReceived = TRUE, !.pingOut = @ \ {id}]
    /\ ClientOnly

\* ws.on('close'), for a socket that failed to connect, that the relay or
\* the network closed, or that the client terminate()d or close()d
LocalClose(id) ==
    /\ id \in DOMAIN client.socks
    /\ LET c == [LocalStopPingInterval(client) EXCEPT
                   !.ws = NoSocket, !.socks = Delete(@, id), !.pingOut = @ \ {id}]
       IN client' = IF c.shouldReconnect THEN scheduleReconnect(c) ELSE c
    /\ ClientOnly

\* the setTimeout callback of scheduleReconnect: this.reconnectTimeout =
\* null, then connect(); `last` notes the attempt that follows a terminate()
LocalReconnect ==
    /\ client.timeouts > 0
    /\ MayConnect(client)
    /\ client' = connect([client EXCEPT
                            !.timeouts = @ - 1, !.reconnectTimeout = FALSE,
                            !.last = IF @ = "terminate" THEN "reconnect" ELSE @])
    /\ ClientOnly

\* a disconnect that leaves the reconnect timer set
disconnectKeepTimer ==
    /\ LET c == [LocalStopPingInterval(client) EXCEPT !.shouldReconnect = FALSE]
       IN client' = IF c.ws # NoSocket
                    THEN [c EXCEPT !.socks[c.ws] = "closing", !.ws = NoSocket]
                    ELSE c
    /\ ClientOnly

\* disconnect()
disconnect ==
    /\ LET c1 == [LocalStopPingInterval(client) EXCEPT !.shouldReconnect = FALSE]
           c2 == IF c1.reconnectTimeout
                 THEN [c1 EXCEPT !.reconnectTimeout = FALSE, !.timeouts = @ - 1]
                 ELSE c1
       IN client' = IF c2.ws # NoSocket
                    THEN [c2 EXCEPT !.socks[c2.ws] = "closing", !.ws = NoSocket]
                    ELSE c2
    /\ ClientOnly

(***************************************************************************)
(* The room after construction, and the specifications.                    *)
(***************************************************************************)
Init ==
    /\ auth = NoAuth
    /\ authWrites = 0
    /\ firstPass = NoPass
    /\ req = EmptyBag
    /\ sockets = {}
    /\ pingInterval = FALSE
    /\ connectedTargets = <<>>
    /\ pendingRequests = EmptyMap
    /\ messageId = 0
    /\ sent = <<>>
    /\ commands = 0
    /\ awaiting = {}
    /\ timers = {}
    /\ fileReadTimestamps = EmptyMap
    /\ pendingLocalRequests = EmptyMap
    /\ localMessageId = 0
    /\ thrown = NoError
    /\ rejected = EmptyMap
    /\ readSince = {}
    /\ ledgerBy = EmptyMap
    /\ toLocal = <<>>
    /\ fromLocal = <<>>
    /\ localTasks = {}
    /\ fs = [p \in FilePaths |-> 0]
    /\ bash = NoBash
    /\ client = NewLocalClient

Frames == BagToSet(req)

\* the steps of fetch() for requests drawn from `requests`, a set of
\* <<path, passphrase>> pairs
Admission(requests) ==
    \/ \E x \in requests : FetchStart(x[1], x[2])
    \/ \E q \in Frames : StorageGet(q)
    \/ \E q \in Frames : Digest(q)
    \/ \E q \in Frames : StoragePut(q)
    \/ \E q \in Frames : Route(q)
    \/ \E q \in Frames : Retire(q)

\* Browser and Local admissions by peers that know the passphrase
BackendRequests ==
    { <<"extension">>, <<"local">>, <<"local", "a">>, <<"local", "">> } \X {"p"}

Next ==
    \/ Admission(BackendRequests)
    \/ \E s \in sockets : webSocketClose(s)

Spec == Init /\ [][Next]_vars

\* the Local peer's admission, and the file commands through it
LocalRequests == { <<"local", "a">> } \X {"p"}

\* LocalClient.connect(): does nothing while this.ws is set
LocalClientConnect ==
    /\ ~LocalClientOpen
    /\ req = EmptyBag
    /\ \E x \in LocalRequests : FetchStart(x[1], x[2])

Mtimes == 0..MaxMtime

\* one more command may be sent to the Local peer
MayCall(max) == localMessageId < max

\* the Local peer comes and goes, files are removed under it, and callers
\* overlap
NextFile ==
    \/ LocalClientConnect
    \/ \E q \in Frames : StorageGet(q)
    \/ \E q \in Frames : Digest(q)
    \/ \E q \in Frames : StoragePut(q)
    \/ \E q \in Frames : Route(q)
    \/ \E q \in Frames : Retire(q)
    \/ \E s \in sockets : webSocketClose(s)
    \/ \E path \in FilePaths : MayCall(MaxCalls) /\ readFile(path)
    \/ \E path \in FilePaths, content \in Contents :
          MayCall(MaxCalls) /\ writeFile(path, content)
    \/ \E id \in DOMAIN pendingLocalRequests : localTimeout(id)
    \/ handleLocalResponse
    \/ LocalReceive
    \/ \E task \in localTasks : LocalReadStat(task)
    \/ \E task \in localTasks : LocalReadFile(task)
    \/ \E task \in localTasks : LocalWriteStat(task)
    \/ \E task \in localTasks, mtime \in Mtimes : LocalWriteFile(task, mtime)
    \/ \E task \in localTasks : LocalWriteStat2(task)
    \/ \E path \in FilePaths : ExternalRemove(path)

SpecFile == Init /\ [][NextFile]_vars

\* the caller awaits each command before the next
Awaited == pendingLocalRequests = EmptyMap

\* the Local peer stays, other programs write and remove the files, and one
\* caller awaits each of its commands, which the Local peer answers in time
NextSerial ==
    \/ LocalClientConnect
    \/ \E q \in Frames : StorageGet(q)
    \/ \E q \in Frames : Digest(q)
    \/ \E q \in Frames : StoragePut(q)
    \/ \E q \in Frames : Route(q)
    \/ \E q \in Frames : Retire(q)
    \/ \E path \in FilePaths : MayCall(MaxSerialCalls) /\ Awaited /\ readFile(path)
    \/ \E path \in FilePaths, content \in Contents :
          MayCall(MaxSerialCalls) /\ Awaited /\ writeFile(path, content)
    \/ handleLocalResponse
    \/ LocalReceive
    \/ \E task \in localTasks : LocalReadStat(task)
    \/ \E task \in localTasks : LocalReadFile(task)
    \/ \E task \in localTasks : LocalWriteStat(task)
    \/ \E task \in localTasks, mtime \in Mtimes : LocalWriteFile(task, mtime)
    \/ \E task \in localTasks : LocalWriteStat2(task)
    \/ \E path \in FilePaths, mtime \in Mtimes : ExternalWrite(path, mtime)
    \/ \E path \in FilePaths : ExternalRemove(path)

SpecSerial == Init /\ [][NextSerial]_vars

\* Agent admissions: without a client id, with the default one, with another
AgentRequests ==
    { <<"mcp">>, <<"mcp", "default">>, <<"mcp", "a">> } \X {"p"}

NextAgents ==
    \/ Admission(AgentRequests)
    \/ \E s \in sockets : webSocketClose(s)

SpecAgents == Init /\ [][NextAgents]_vars

\* requests with a right, a wrong and no passphrase
AuthRequests ==
    ({ <<"health">>, <<"extension">> } \X {NoPass, "p", "q"})
    \cup ({ <<"extension", "status">>, <<"local", "status">>, <<"local">>,
            <<"mcp", "a">> } \X {NoPass})
    \cup ({ <<"nope">> } \X {NoPass, "p"})

NextAuth ==
    \/ Admission(AuthRequests)
    \/ \E s \in sockets : webSocketClose(s)

SpecAuth == Init /\ [][NextAuth]_vars

\* the Browser extension opens one connection, and another once it has closed
BrowserConnect ==
    /\ getExtensionWebSocket = {}
    /\ req = EmptyBag
    /\ FetchStart(<<"extension">>, "p")

\* the target events a Browser sends: attached, detached, targetInfoChanged
\* and Page.frameNavigated in every shape the relay tells apart, and one
\* event it does not look into
FrameNames == {"", "T1"}
ParentIds == {"", "f0"}
UnknownSession == "s9"

TargetEvents ==
    {[method |-> "Target.attachedToTarget", sessionId |-> NoSession,
      params |-> [sessionId |-> s, targetInfo |-> i, waitingForDebugger |-> FALSE]] :
        s \in SessionIds, i \in TargetInfos}
    \cup {[method |-> "Target.detachedFromTarget", sessionId |-> NoSession,
           params |-> [sessionId |-> s]] : s \in SessionIds}
    \cup {[method |-> "Target.targetInfoChanged", sessionId |-> NoSession,
           params |-> [targetInfo |-> i]] : i \in TargetInfos}
    \cup {[method |-> "Page.frameNavigated", sessionId |-> s,
           params |-> [frame |-> [url |-> u, name |-> n, parentId |-> f]]] :
        s \in SessionIds \cup {NoSession, UnknownSession}, u \in Urls,
        n \in FrameNames, f \in ParentIds}
    \cup {[method |-> m, sessionId |-> "s1", params |-> NoParams] :
        m \in {"Target.detachedFromTarget", "Page.frameNavigated",
                "Runtime.consoleAPICalled"}}

\* one Browser, which comes and goes, and the target events it sends
NextTargets ==
    \/ BrowserConnect
    \/ \E q \in Frames : StorageGet(q)
    \/ \E q \in Frames : Digest(q)
    \/ \E q \in Frames : StoragePut(q)
    \/ \E q \in Frames : Route(q)
    \/ \E q \in Frames : Retire(q)
    \/ \E s \in sockets : webSocketClose(s)
    \/ \E event \in TargetEvents : handleExtensionEvent(event)

SpecTargets == Init /\ [][NextTargets]_vars

\* an Agent opens one connection under its client id
AgentIds == {"a", "b"}

AgentConnect(clientId) ==
    /\ req = EmptyBag
    /\ getMcpWebSocket(clientId) = {}
    /\ FetchStart(<<"mcp", clientId>>, "p")

\* the commands the Agents send: the target commands the router answers from
\* the registry, in each shape it tells apart, one it answers with a constant
\* and two it forwards
RouterCommands ==
    {<<"Browser.getVersion", NoParams, NoSession>>,
     <<"Target.setAutoAttach", NoParams, NoSession>>,
     <<"Target.setAutoAttach", NoParams, "s1">>,
     <<"Target.setDiscoverTargets", [discover |-> TRUE], NoSession>>,
     <<"Target.setDiscoverTargets", [discover |-> FALSE], NoSession>>,
     <<"Target.attachToTarget", [targetId |-> "t1"], NoSession>>,
     <<"Target.attachToTarget", [targetId |-> "t2"], NoSession>>,
     <<"Target.attachToTarget", NoParams, NoSession>>,
     <<"Page.navigate", [url |-> "u1"], "s1">>}

\* the target events of this specification: two sessions on one target, a
\* change of its info, and a detach
RouterEvents ==
    {[method |-> "Target.attachedToTarget", sessionId |-> NoSession,
      params |-> [sessionId |-> s,
                  targetInfo |-> [targetId |-> "t1", url |-> "u0", title |-> "T0"],
                  waitingForDebugger |-> FALSE]] : s \in SessionIds}
    \cup {[method |-> "Target.targetInfoChanged", sessionId |-> NoSession,
           params |-> [targetInfo |-> [targetId |-> "t1", url |-> "u1", title |-> "T1"]]],
          [method |-> "Target.detachedFromTarget", sessionId |-> NoSession,
           params |-> [sessionId |-> "s1"]]}

\* what the Browser answers a forwarded command with
BrowserResults == {[frameId |-> "f1"]}
BrowserErrors == {"", "e1"}

\* one more command may be sent by an Agent
MayCommand(max) == commands < max

\* no admission is in flight.  The steps of an admission touch none of the
\* variables a message handler reads except the socket set, which only the
\* upgrade changes, and no handler enables or disables them: every
\* interleaving of a handler with an admission reaches the state that the
\* handler reaches before or after that admission as a whole.
Quiet == req = EmptyBag

\* a Browser, two Agents admitted at any time after it, the commands of the
\* Agents, and the Browser's answers, which may be late, out of order or
\* missing
NextRouter ==
    \/ BrowserConnect
    \/ \E clientId \in AgentIds :
          getExtensionWebSocket # {} /\ AgentConnect(clientId)
    \/ \E q \in Frames : StorageGet(q)
    \/ \E q \in Frames : Digest(q)
    \/ \E q \in Frames : StoragePut(q)
    \/ \E q \in Frames : Route(q)
    \/ \E q \in Frames : Retire(q)
    \/ \E event \in RouterEvents : Quiet /\ handleExtensionEvent(event)
    \/ \E s \in getMcpWebSockets, c \in RouterCommands :
          Quiet /\ MayCommand(MaxCommands) /\ handleMcpMessage(s, c[1], c[2], c[3])
    \/ \E id \in 1..MaxCommands, result \in BrowserResults, error \in BrowserErrors :
          Quiet /\ handleExtensionResponse(id, result, error)
    \/ \E id \in DOMAIN pendingRequests : Quiet /\ extensionTimeout(id)

SpecRouter == Init /\ [][NextRouter]_vars

\* the events of the fan-out specification: one that changes the registry
\* and one that does not
FanoutEvents ==
    {[method |-> "Target.attachedToTarget", sessionId |-> NoSession,
      params |-> [sessionId |-> "s1",
                  targetInfo |-> [targetId |-> "t1", url |-> "u0", title |-> "T0"],
                  waitingForDebugger |-> FALSE]],
     [method |-> "Runtime.consoleAPICalled", sessionId |-> "s1",
      params |-> [type |-> "log"]]}

\* a Browser that comes and goes, Agents that connect before and after, whose
\* sockets the relay closes with the Browser's and which take their time to
\* close in turn, and the Browser's events
NextFanout ==
    \/ BrowserConnect
    \/ \E clientId \in AgentIds : AgentConnect(clientId)
    \/ \E q \in Frames : StorageGet(q)
    \/ \E q \in Frames : Digest(q)
    \/ \E q \in Frames : StoragePut(q)
    \/ \E q \in Frames : Route(q)
    \/ \E q \in Frames : Retire(q)
    \/ \E s \in sockets : Quiet /\ webSocketClose(s)
    \/ \E event \in FanoutEvents : Quiet /\ handleExtensionEvent(event)

SpecFanout == Init /\ [][NextFanout]_vars

\* the room once a Browser, the Agents a and b and a Local peer were admitted,
\* in this order, with the passphrase "p"
InitTeardown ==
    /\ auth = [passphraseHash |-> hashPassphrase("p"), createdAt |-> "Date.now()"]
    /\ authWrites = 1
    /\ firstPass = "p"
    /\ req = EmptyBag
    /\ sockets = {[sid |-> 1, tag |-> <<"extension">>, closing |-> FALSE],
                  [sid |-> 2, tag |-> <<"mcp", "a">>, closing |-> FALSE],
                  [sid |-> 3, tag |-> <<"mcp", "b">>, closing |-> FALSE],
                  [sid |-> 4, tag |-> <<"local", "a">>, closing |-> FALSE]}
    /\ pingInterval = TRUE
    /\ connectedTargets = <<>>
    /\ pendingRequests = EmptyMap
    /\ messageId = 0
    /\ sent = <<>>
    /\ commands = 0
    /\ awaiting = {}
    /\ timers = {}
    /\ fileReadTimestamps = EmptyMap
    /\ pendingLocalRequests = EmptyMap
    /\ localMessageId = 0
    /\ thrown = NoError
    /\ rejected = EmptyMap
    /\ readSince = {}
    /\ ledgerBy = EmptyMap
    /\ toLocal = <<>>
    /\ fromLocal = <<>>
    /\ localTasks = {}
    /\ fs = [p \in FilePaths |-> 0]
    /\ bash = NoBash
    /\ client = NewLocalClient

\* the peers leave one after another, in any order, while commands wait for
\* the Browser and reads for the Local peer
NextTeardown ==
    \/ \E s \in sockets : webSocketClose(s)
    \/ \E s \in getMcpWebSockets :
          /\ MayCommand(MaxCommands)
          /\ handleMcpMessage(s, "Page.navigate", [url |-> "u1"], "s1")
    \/ \E event \in FanoutEvents : handleExtensionEvent(event)
    \/ MayCall(MaxCalls) /\ readFile("/a")
    \/ handleLocalResponse
    \/ LocalReceive
    \/ \E task \in localTasks : LocalReadStat(task)
    \/ \E task \in localTasks : LocalReadFile(task)

SpecTeardown == InitTeardown /\ [][NextTeardown]_vars

\* the event that puts a target into the registry
AttachEvent ==
    [method |-> "Target.attachedToTarget", sessionId |-> NoSession,
     params |-> [sessionId |-> "s1",
                 targetInfo |-> [targetId |-> "t1", url |-> "u0", title |-> "T0"],
                 waitingForDebugger |-> FALSE]]

\* the room of InitTeardown once a read of /a was answered and a second one
\* has been sent to the Local peer
InitChurn ==
    /\ auth = [passphraseHash |-> hashPassphrase("p"), createdAt |-> "Date.now()"]
    /\ authWrites = 1
    /\ firstPass = "p"
    /\ req = EmptyBag
    /\ sockets = {[sid |-> 1, tag |-> <<"extension">>, closing |-> FALSE],
                  [sid |-> 2, tag |-> <<"mcp", "a">>, closing |-> FALSE],
                  [sid |-> 3, tag |-> <<"mcp", "b">>, closing |-> FALSE],
                  [sid |-> 4, tag |-> <<"local", "a">>, closing |-> FALSE]}
    /\ pingInterval = TRUE
    /\ connectedTargets = <<>>
    /\ pendingRequests = EmptyMap
    /\ messageId = 0
    /\ sent = <<>>
    /\ commands = 0
    /\ awaiting = {}
    /\ timers = {}
    /\ fileReadTimestamps = Put(EmptyMap, "/a", 0)
    /\ pendingLocalRequests =
          Put(EmptyMap, 2, [op |-> "read", path |-> "/a", expectedMtime |-> Undefined,
                            readBefore |-> TRUE, basis |-> "read"])
    /\ localMessageId = 2
    /\ thrown = NoError
    /\ rejected = EmptyMap
    /\ readSince = {"/a"}
    /\ ledgerBy = Put(EmptyMap, "/a", "read")
    /\ toLocal = <<[id |-> 2, method |-> "file.read", path |-> "/a", content |-> "",
                    expectedMtime |-> Undefined]>>
    /\ fromLocal = <<>>
    /\ localTasks = {}
    /\ fs = [p \in FilePaths |-> 0]
    /\ bash = NoBash
    /\ client = NewLocalClient

\* the peers leave in any order while forwarded commands wait for the
\* Browser, which answers in time, late or never
NextChurn ==
    \/ \E s \in sockets : webSocketClose(s)
    \/ \E s \in getMcpWebSockets :
          /\ MayCommand(MaxCommands)
          /\ handleMcpMessage(s, "Page.navigate", [url |-> "u1"], "s1")
    \/ \E id \in 1..MaxCommands, result \in BrowserResults, error \in BrowserErrors :
          handleExtensionResponse(id, result, error)
    \/ \E id \in timers : extensionTimeout(id)
    \/ handleExtensionEvent(AttachEvent)

SpecChurn == InitChurn /\ [][NextChurn]_vars

\* a Browser, a Local peer and an Agent that come and go in any order, the
\* keepalive timer, and commands and reads that nobody answers: a call
\* leaves its table when its back-end peer does
NextPeers ==
    \/ BrowserConnect
    \/ LocalClientConnect
    \/ AgentConnect("a")
    \/ \E q \in Frames : StorageGet(q)
    \/ \E q \in Frames : Digest(q)
    \/ \E q \in Frames : StoragePut(q)
    \/ \E q \in Frames : Route(q)
    \/ \E q \in Frames : Retire(q)
    \/ \E s \in sockets : Quiet /\ webSocketClose(s)
    \/ \E s \in getMcpWebSockets :
          /\ Quiet
          /\ MayCommand(MaxCommands)
          /\ handleMcpMessage(s, "Page.navigate", [url |-> "u1"], "s1")
    \/ Quiet /\ MayCall(MaxCalls) /\ readFile("/a")
    \/ Quiet /\ pingTick

SpecPeers == Init /\ [][NextPeers]_vars

\* admission requests that the room of InitChurn refuses: for a role or a
\* client id that is taken (409), with a wrong passphrase (403), with none
\* (401), and for a path that is none of the room's (404)
RefusedRequests ==
    ({ <<"extension">>, <<"local">>, <<"local", "x">>, <<"mcp", "a">> } \X {"p"})
    \cup ({ <<"extension">>, <<"mcp", "c">> } \X {"q"})
    \cup ({ <<"extension">> } \X {NoPass})
    \cup ({ <<"nope">> } \X {"p"})

\* the room of InitChurn at work, a target and forwarded commands, while
\* requests that it refuses come in; the room's passphrase is stored, so that
\* validatePassphrase never takes its storage.put branch
NextRefuse ==
    \/ \E x \in RefusedRequests : FetchStart(x[1], x[2])
    \/ \E q \in Frames : StorageGet(q)
    \/ \E q \in Frames : Digest(q)
    \/ \E q \in Frames : Route(q)
    \/ \E q \in Frames : Retire(q)
    \/ handleExtensionEvent(AttachEvent)
    \/ \E s \in getMcpWebSockets :
          /\ MayCommand(MaxCommands)
          /\ handleMcpMessage(s, "Page.navigate", [url |-> "u1"], "s1")

SpecRefuse == InitChurn /\ [][NextRefuse]_vars

\* the transport hibernates the room between two messages: the object goes,
\* the sockets and their tags stay with the runtime, and the next event
\* builds the object anew, each field from its initialiser.  No fetch() is in
\* progress and no call is suspended at an await when this happens.
Hibernate ==
    /\ req = EmptyBag
    /\ sockets # {}
    /\ pendingRequests = EmptyMap
    /\ pendingLocalRequests = EmptyMap
    /\ connectedTargets' = <<>>
    /\ pendingRequests' = EmptyMap
    /\ messageId' = 0
    /\ timers' = {}
    /\ fileReadTimestamps' = EmptyMap
    /\ pendingLocalRequests' = EmptyMap
    /\ localMessageId' = 0
    /\ pingInterval' = FALSE
    /\ ledgerBy' = EmptyMap
    /\ sent' = <<>>
    /\ UNCHANGED <<auth, authWrites, firstPass, req, sockets, commands, awaiting,
                   thrown, rejected, readSince, wireVars, localVars>>

\* the commands of the wake specification: one the router answers from the
\* registry and one it forwards
WakeCommands ==
    {<<"Target.getTargets", NoParams, NoSession>>,
     <<"Page.navigate", [url |-> "u1"], "s1">>}

\* the room of InitTeardown at work, a target, commands, a read and a write
\* of /a that the Local peer answers, with hibernations in between
NextWake ==
    \/ Hibernate
    \/ handleExtensionEvent(AttachEvent)
    \/ \E s \in getMcpWebSockets, c \in WakeCommands :
          /\ MayCommand(MaxCommands)
          /\ pendingRequests = EmptyMap
          /\ handleMcpMessage(s, c[1], c[2], c[3])
    \/ \E id \in 1..MaxCommands, result \in BrowserResults :
          id \in DOMAIN pendingRequests /\ handleExtensionResponse(id, result, "")
    \/ MayCall(MaxCalls) /\ Awaited /\ readFile("/a")
    \/ \E content \in Contents : MayCall(MaxCalls) /\ Awaited /\ writeFile("/a", content)
    \/ handleLocalResponse
    \/ LocalReceive
    \/ \E task \in localTasks : LocalReadStat(task)
    \/ \E task \in localTasks : LocalReadFile(task)
    \/ \E task \in localTasks : LocalWriteStat(task)
    \/ \E task \in localTasks : LocalWriteFile(task, 1)
    \/ \E task \in localTasks : LocalWriteStat2(task)

SpecWake == InitTeardown /\ [][NextWake]_vars

\* the event that takes the target of AttachEvent out of the registry
DetachEvent ==
    [method |-> "Target.detachedFromTarget", sessionId |-> NoSession,
     params |-> [sessionId |-> "s1"]]

\* Target.detachFromTarget for the session of AttachEvent, for a session the
\* registry never holds, and without a sessionId parameter
DetachParams == {[sessionId |-> "s1"], [sessionId |-> "s2"], NoParams}

\* the room of InitTeardown, the target that comes and goes, the Agents'
\* Target.detachFromTarget commands and the Browser's answers
NextDetach ==
    \/ handleExtensionEvent(AttachEvent)
    \/ handleExtensionEvent(DetachEvent)
    \/ \E s \in getMcpWebSockets, params \in DetachParams :
          /\ MayCommand(MaxCommands)
          /\ handleMcpMessage(s, "Target.detachFromTarget", params, NoSession)
    \/ \E id \in 1..MaxCommands, error \in BrowserErrors :
          handleExtensionResponse(id, EmptyMap, error)

SpecDetach == InitTeardown /\ [][NextDetach]_vars

\* the commands the router answers from its own state, in each shape it
\* tells apart, and one it forwards
StateCommands ==
    {<<"Browser.getVersion", NoParams, NoSession>>,
     <<"Browser.setDownloadBehavior", [behavior |-> "allow"], NoSession>>,
     <<"Target.getTargets", NoParams, NoSession>>,
     <<"Page.navigate", [url |-> "u1"], "s1">>}
    \cup ({"Target.getTargetInfo"}
            \X {NoParams, [targetId |-> "t1"], [targetId |-> "t2"]}
            \X {NoSession, "s1", "s2"})

\* targets that attach under either session, and one that detaches
StateEvents ==
    {[method |-> "Target.attachedToTarget", sessionId |-> NoSession,
      params |-> [sessionId |-> s,
                  targetInfo |-> [targetId |-> i, url |-> "u0", title |-> "T0"],
                  waitingForDebugger |-> FALSE]] : s \in SessionIds, i \in TargetIds}
    \cup {DetachEvent}

\* the room of InitTeardown with targets that come and go, the Agents'
\* commands and the Browser's answers to those that are forwarded
NextState ==
    \/ \E event \in StateEvents : handleExtensionEvent(event)
    \/ \E s \in getMcpWebSockets, c \in StateCommands :
          /\ MayCommand(MaxCommands)
          /\ handleMcpMessage(s, c[1], c[2], c[3])
    \/ \E id \in 1..MaxCommands, result \in BrowserResults :
          handleExtensionResponse(id, result, "")

SpecState == InitTeardown /\ [][NextState]_vars

\* the frames the relay consumes without acting on them
NoiseFrames == {Malformed, Pong, Log}

\* the room of InitChurn with a target and forwarded commands, the keepalive
\* timer, peers that send frames the relay drops and that answer no ping,
\* and sockets that the transport closes
NextNoise ==
    \/ \E s \in sockets, frame \in NoiseFrames : webSocketMessage(s, frame)
    \/ pingTick
    \/ handleExtensionEvent(AttachEvent)
    \/ \E s \in getMcpWebSockets :
          /\ MayCommand(MaxCommands)
          /\ handleMcpMessage(s, "Page.navigate", [url |-> "u1"], "s1")
    \/ \E s \in sockets : webSocketClose(s)

SpecNoise == InitChurn /\ [][NextNoise]_vars

\* the timeouts callers of executeBash give: none, and two numbers
BashTimeouts == {Undefined, 5000, 30000}

\* the room of InitTeardown, whose callers run bash commands one after
\* another: the child ends by itself or is killed, and the relay's deadline
\* comes or does not
NextBash ==
    \/ \E timeout \in BashTimeouts : MayCall(MaxCalls) /\ executeBash(timeout)
    \/ handleBashExecute
    \/ \E task \in localTasks, code \in {0, 1} : childClose(task, code)
    \/ \E task \in localTasks : childKill(task)
    \/ executeBashTimeout
    \/ handleLocalResponse
    \/ Tick

SpecBash == InitTeardown /\ [][NextBash]_vars

\* the 'close' of a socket that is on its way out
LocalCloseFollows ==
    \E id \in DOMAIN client.socks : client.socks[id] = "closing" /\ LocalClose(id)

\* a LocalClient whose owner connects and disconnects at any time, and a
\* relay that answers pings or not and closes connections or not
NextClient ==
    \/ LocalUserConnect
    \/ \E id \in DOMAIN client.socks : LocalOpen(id)
    \/ LocalPingTick
    \/ \E id \in DOMAIN client.socks : LocalPong(id)
    \/ \E id \in DOMAIN client.socks :
          client.socks[id] # "closing" /\ ~KeptUp(id) /\ LocalClose(id)
    \/ LocalCloseFollows
    \/ LocalReconnect
    \/ disconnect

\* a socket that was terminate()d or close()d emits 'close', and a timer
\* that is set fires unless it is cleared
SpecClient ==
    /\ Init
    /\ [][NextClient]_vars
    /\ WF_vars(LocalCloseFollows)
    /\ WF_vars(LocalReconnect)

\* the numbers the Agents give their commands
CommandIds == {1, 2}

\* the room of InitTeardown, whose Agents number their commands from the same
\* numbers, leave while the Browser has not answered and come back under
\* the client id they had; the passphrase is stored, so that no admission
\* writes it
NextOrigin ==
    \/ \E clientId \in AgentIds : AgentConnect(clientId)
    \/ \E q \in Frames : StorageGet(q)
    \/ \E q \in Frames : Digest(q)
    \/ \E q \in Frames : Route(q)
    \/ \E q \in Frames : Retire(q)
    \/ \E s \in sockets : Quiet /\ webSocketClose(s)
    \/ \E s \in getMcpWebSockets, id \in CommandIds :
          /\ Quiet
          /\ MayCommand(MaxCommands)
          /\ handleMcpCommand(s, id, "Page.navigate", [url |-> "u1"], "s1")
    \/ \E id \in 1..MaxCommands, result \in BrowserResults, error \in BrowserErrors :
          Quiet /\ handleExtensionResponse(id, result, error)
    \/ \E id \in timers : Quiet /\ extensionTimeout(id)

SpecOrigin == InitTeardown /\ [][NextOrigin]_vars

\* the room of InitTeardown once a read of /a was answered
InitWriters ==
    /\ auth = [passphraseHash |-> hashPassphrase("p"), createdAt |-> "Date.now()"]
    /\ authWrites = 1
    /\ firstPass = "p"
    /\ req = EmptyBag
    /\ sockets = {[sid |-> 1, tag |-> <<"extension">>, closing |-> FALSE],
                  [sid |-> 2, tag |-> <<"mcp", "a">>, closing |-> FALSE],
                  [sid |-> 3, tag |-> <<"mcp", "b">>, closing |-> FALSE],
                  [sid |-> 4, tag |-> <<"local", "a">>, closing |-> FALSE]}
    /\ pingInterval = TRUE
    /\ connectedTargets = <<>>
    /\ pendingRequests = EmptyMap
    /\ messageId = 0
    /\ sent = <<>>
    /\ commands = 0
    /\ awaiting = {}
    /\ timers = {}
    /\ fileReadTimestamps = Put(EmptyMap, "/a", 0)
    /\ pendingLocalRequests = EmptyMap
    /\ localMessageId = 1
    /\ thrown = NoError
    /\ rejected = EmptyMap
    /\ readSince = {"/a"}
    /\ ledgerBy = Put(EmptyMap, "/a", "read")
    /\ toLocal = <<>>
    /\ fromLocal = <<>>
    /\ localTasks = {}
    /\ fs = [p \in FilePaths |-> 0]
    /\ bash = NoBash
    /\ client = NewLocalClient

\* callers that write /a without awaiting each other, MaxCalls times after
\* the read, and a Local peer that answers every command
NextWriters ==
    \/ \E content \in Contents : MayCall(1 + MaxCalls) /\ writeFile("/a", content)
    \/ handleLocalResponse
    \/ LocalReceive
    \/ \E task \in localTasks : LocalWriteStat(task)
    \/ \E task \in localTasks, mtime \in Mtimes : LocalWriteFile(task, mtime)
    \/ \E task \in localTasks : LocalWriteStat2(task)

SpecWriters == InitWriters /\ [][NextWriters]_vars

\* the room of InitWriters, whose callers read /b and write /a and /b,
\* MaxCalls times in all and without awaiting each other, while another
\* program writes /a, the Local peer answers, is late or leaves, and the
\* other peers stay
NextLedger ==
    \/ MayCall(1 + MaxCalls) /\ readFile("/b")
    \/ \E path \in FilePaths, content \in Contents :
          MayCall(1 + MaxCalls) /\ writeFile(path, content)
    \/ \E id \in DOMAIN pendingLocalRequests : localTimeout(id)
    \/ handleLocalResponse
    \/ \E s \in getLocalWebSocket : webSocketClose(s)
    \/ LocalReceive
    \/ \E task \in localTasks : LocalReadStat(task)
    \/ \E task \in localTasks : LocalReadFile(task)
    \/ \E task \in localTasks : LocalWriteStat(task)
    \/ \E task \in localTasks, mtime \in Mtimes : LocalWriteFile(task, mtime)
    \/ \E task \in localTasks : LocalWriteStat2(task)
    \/ ExternalWrite("/a", MaxMtime)

SpecLedger == InitWriters /\ [][NextLedger]_vars

\* the commands of the liveness specification: one the router answers itself
\* and one it forwards
LiveCommands ==
    {<<"Browser.getVersion", NoParams, NoSession>>,
     <<"Page.navigate", [url |-> "u1"], "s1">>}

\* a Browser and an Agent that come and go, the Agent's commands, and a
\* Browser that answers or does not
NextLive ==
    \/ BrowserConnect
    \/ AgentConnect("a")
    \/ \E q \in Frames : StorageGet(q)
    \/ \E q \in Frames : Digest(q)
    \/ \E q \in Frames : StoragePut(q)
    \/ \E q \in Frames : Route(q)
    \/ \E q \in Frames : Retire(q)
    \/ \E s \in sockets : Quiet /\ webSocketClose(s)
    \/ \E s \in getMcpWebSockets, c \in LiveCommands :
          Quiet /\ MayCommand(MaxCommands) /\ handleMcpMessage(s, c[1], c[2], c[3])
    \/ \E id \in 1..MaxCommands, result \in BrowserResults, error \in BrowserErrors :
          Quiet /\ handleExtensionResponse(id, result, error)
    \/ \E id \in DOMAIN pendingRequests : extensionTimeout(id)

\* a timer that is set fires unless it is cleared: the runtime keeps the
\* object in memory while a timer is pending
SpecLive ==
    /\ Init
    /\ [][NextLive]_vars
    /\ \A id \in 1..MaxCommands : WF_vars(extensionTimeout(id))

(***************************************************************************)
(* Properties.                                                             *)
(***************************************************************************)
RegisteredBrowsers == {s \in sockets : s.tag = <<"extension">>}
RegisteredLocals == {s \in sockets : Len(s.tag) = 2 /\ s.tag[1] = "local"}
RegisteredAgents == {s \in sockets : Len(s.tag) = 2 /\ s.tag[1] = "mcp"}

\* the client id a request names: its third path component, 'default' if none
NamedClientId(path) == IF Len(path) < 2 \/ path[2] = "" THEN "default" ELSE path[2]

\* the responses this step produces
NewResponses ==
    {d \in BagToSet(req') : d.pc = "done" /\ CopiesIn(d, req') > CopiesIn(d, req)}

\* the responses of requests that passed authentication and reached a handler
Handled(d) == d.status \in {101, 409}

\* C1: at most one Browser peer is registered in every reachable state, and
\* a Browser admission handled while one is registered is answered 409 (101
\* otherwise), whatever the interleaving of admissions and closes.
C1_SingleBrowser ==
    /\ [](Cardinality(RegisteredBrowsers) <= 1)
    /\ [][\A d \in NewResponses :
            (d.path = <<"extension">> /\ Handled(d))
                => (d.status = IF RegisteredBrowsers # {} THEN 409 ELSE 101)]_vars

\* a second Browser admission has been refused while the first is registered
C1_Witness ==
    /\ RegisteredBrowsers # {}
    /\ \E d \in Frames : d.pc = "done" /\ d.path = <<"extension">> /\ d.status = 409

\* C2: at most one Local peer is registered at any time, and a Local
\* admission with any client id, or none, is answered 409 while any Local
\* peer is registered (101 otherwise).
C2_SingleLocal ==
    /\ [](Cardinality(RegisteredLocals) <= 1)
    /\ [][\A d \in NewResponses :
            (Len(d.path) >= 1 /\ d.path[1] = "local" /\ Handled(d))
                => (d.status = IF RegisteredLocals # {} THEN 409 ELSE 101)]_vars

\* a Local admission without client id has been refused while a Local peer
\* with another client id is registered
C2_Witness ==
    /\ \E s \in RegisteredLocals : s.tag[2] = "a"
    /\ \E d \in Frames : d.pc = "done" /\ d.path = <<"local">> /\ d.status = 409

\* C3: the client ids of the registered Agent peers are pairwise distinct;
\* an authenticated Agent admission is answered 409 exactly when its client
\* id (default when omitted) is that of a registered Agent, and is accepted
\* otherwise, however many Agents are registered.
C3_DistinctAgents ==
    /\ [](\A s1, s2 \in RegisteredAgents : s1.tag[2] = s2.tag[2] => s1 = s2)
    /\ [][\A d \in NewResponses :
            (Len(d.path) >= 1 /\ d.path[1] = "mcp" /\ Handled(d))
                => (d.status =
                      IF \E s \in RegisteredAgents : s.tag[2] = NamedClientId(d.path)
                      THEN 409 ELSE 101)]_vars

\* two Agents with different client ids are registered, and an admission
\* that omits the client id has been refused
C3_Witness ==
    /\ \E s1, s2 \in RegisteredAgents : s1.tag[2] = "default" /\ s2.tag[2] = "a"
    /\ \E d \in Frames : d.pc = "done" /\ d.path = <<"mcp">> /\ d.status = 409

\* C4: once the first passphrase-bearing request to a fresh room has been
\* validated, every request that arrives later passes authentication iff
\* its passphrase equals the first one, and is answered 403 otherwise.
C4_LaterRequestsMatchFirst ==
    \A d \in Frames :
        (d.late /\ d.pass # NoPass) =>
            /\ d.pc = "validated" => (d.valid <=> d.pass = firstPass)
            /\ d.pc = "done" /\ Classify(d.path, d.pass) = "validate"
                  => (d.status = 403 <=> d.pass # firstPass)

\* C5: the room's auth record is written exactly once over the life of the
\* room and never overwritten, for every interleaving of validate calls.
C5_AuthWrittenOnce == authWrites <= 1

\* what a room holds besides the requests in flight
roomState ==
    <<auth, authWrites, sockets, pingInterval, browserVars, relayFileVars, wireVars>>

IsStatusPath(path) == path = <<"extension", "status">> \/ path = <<"local", "status">>

\* C6 as stated: every request other than the health probe that carries no
\* passphrase is answered 401, says nothing about the room and changes no
\* room state; the status endpoints included.
C6_NoPassphraseAlways401 ==
    [][\A d \in NewResponses :
        (d.pass = NoPass /\ ~IsHealth(d.path))
            => (d.status = 401 /\ d.body = "Passphrase required" /\ UNCHANGED roomState)]_vars

\* C6 as amended: an upgrade or unknown sub-path without a passphrase is
\* answered 401, says nothing about the room and changes no room state;
\* extension/status and local/status are answered 200 with the connected
\* flag of their peer without any passphrase, and change no room state.
C6_NoPassphrase ==
    [][\A d \in NewResponses :
        (d.pass = NoPass /\ ~IsHealth(d.path))
            => /\ UNCHANGED roomState
               /\ IF IsStatusPath(d.path)
                  THEN /\ d.status = 200
                       /\ d.body = IF d.path[1] = "extension"
                                   THEN (IF RegisteredBrowsers # {} THEN "connected:true" ELSE "connected:false")
                                   ELSE (IF RegisteredLocals # {} THEN "connected:true" ELSE "connected:false")
                  ELSE d.status = 401 /\ d.body = "Passphrase required"]_vars

\* an upgrade without a passphrase has been refused with 401 on a room
\* that has a Browser, and a status probe without one has been answered
C6_Witness ==
    /\ RegisteredBrowsers # {}
    /\ \E d \in Frames : d.pc = "done" /\ d.pass = NoPass /\ d.status = 401
                           /\ d.path = <<"mcp", "a">>
    /\ \E d \in Frames : d.pc = "done" /\ d.pass = NoPass /\ d.status = 200
                           /\ d.path = <<"extension", "status">>
                           /\ d.body = "connected:true"

(***************************************************************************)
(* The file commands.                                                      *)
(***************************************************************************)
\* this step is handleLocalResponse settling the pending call `id`
Settles(id) ==
    /\ fromLocal # <<>>
    /\ Head(fromLocal).id = id
    /\ id \in DOMAIN pendingLocalRequests
    /\ id \notin DOMAIN pendingLocalRequests'
    /\ fromLocal' = Tail(fromLocal)
    /\ sockets' = sockets

\* ... and resolving it: the caller is told the command succeeded
Resolves(id) == Settles(id) /\ Head(fromLocal).error = ""

\* the pending file.write calls
PendingWrites == {id \in DOMAIN pendingLocalRequests : pendingLocalRequests[id].op = "write"}

\* this step sent a command to the Local peer
Dispatches == toLocal' # toLocal /\ Len(toLocal') = Len(toLocal) + 1

\* C7: a file.write of a path is reported successful to its caller only if a
\* file.read of the same path succeeded earlier and the Local peer has not
\* disconnected between that read and the dispatch of the write.
C7_WriteOnlyAfterRead ==
    [][\A id \in PendingWrites :
          Resolves(id) => pendingLocalRequests[id].readBefore]_vars

\* a write has been reported successful
C7_Witness ==
    \E path \in DOMAIN ledgerBy : ledgerBy[path] = "write" /\ path \in readSince

\* C8: writeFile for a path without a ledger entry throws the 'Cannot write
\* to {path}: file has not been read yet...' error before any dispatch: no
\* message goes to the Local peer, no command id is allocated, and the ledger
\* and the pending table stay as they are.
C8_UnreadWriteRejected ==
    [][\A path \in FilePaths, content \in Contents :
          (path \notin DOMAIN fileReadTimestamps /\ writeFile(path, content))
          => /\ thrown' = NotReadError(path)
             /\ toLocal' = toLocal
             /\ localMessageId' = localMessageId
             /\ fileReadTimestamps' = fileReadTimestamps
             /\ pendingLocalRequests' = pendingLocalRequests]_vars

\* writeFile has thrown that error with the Local peer connected and another
\* path in the ledger
C8_Witness ==
    /\ getLocalWebSocket # {}
    /\ \E path \in FilePaths :
          /\ thrown = NotReadError(path)
          /\ path \notin DOMAIN fileReadTimestamps
          /\ fileReadTimestamps # EmptyMap

\* the mtime the Local peer found is within one unit of `expectedMtime`
WithinTolerance(observed, expectedMtime) ==
    observed # Undefined /\ Abs(observed - expectedMtime) <= 1

C10_WriteOnlyWhenConfirmed ==
    \A task \in localTasks :
        (task.method = "file.write" /\ task.pc \in {"writeFile", "stat2"}
         /\ task.expectedMtime # Undefined)
        => WithinTolerance(task.stat, task.expectedMtime)

\* the registry as the map it is: sessionId to entry
AsMap(targets) ==
    [s \in {targets[i].sessionId : i \in 1..Len(targets)} |->
        CHOOSE x \in {targets[i] : i \in 1..Len(targets)} : x.sessionId = s]

\* C11: every Browser event the relay processes takes the target registry to
\* what the reference replay makes of it: attachedToTarget inserts under the
\* sessionId, detachedFromTarget removes the sessionId, targetInfoChanged
\* replaces the info of what is registered with that targetId, a top-frame
\* frameNavigated with a known sessionId sets the url and, if the frame has a
\* name, the title; anything else changes nothing
C11_RegistryMirrorsEvents ==
    [][\A event \in TargetEvents :
          handleExtensionEvent(event) =>
            LET m == AsMap(connectedTargets)
                p == event.params
                reference ==
                  IF ~HasParams(p) THEN m
                  ELSE IF event.method = "Target.attachedToTarget"
                  THEN Put(m, p.sessionId,
                           [sessionId |-> p.sessionId,
                            targetId |-> p.targetInfo.targetId,
                            targetInfo |-> p.targetInfo])
                  ELSE IF event.method = "Target.detachedFromTarget"
                  THEN Delete(m, p.sessionId)
                  ELSE IF event.method = "Target.targetInfoChanged"
                  THEN [s \in DOMAIN m |->
                          IF m[s].targetId = p.targetInfo.targetId
                          THEN [m[s] EXCEPT !.targetInfo = p.targetInfo]
                          ELSE m[s]]
                  ELSE IF event.method = "Page.frameNavigated"
                          /\ event.sessionId \in DOMAIN m /\ p.frame.parentId = ""
                  THEN [m EXCEPT
                          ![event.sessionId].targetInfo.url = p.frame.url,
                          ![event.sessionId].targetInfo.title =
                              IF p.frame.name # "" THEN p.frame.name ELSE @]
                  ELSE m
            IN AsMap(connectedTargets') = reference]_vars

\* a frame that reached the socket it was sent to
Delivered(frame, sid) == frame.to = sid /\ frame.ok

IsEvent(msg, method) ==
    "type" \in DOMAIN msg /\ msg.type = "event" /\ msg.method = method

IsResponse(msg) == "type" \in DOMAIN msg /\ msg.type = "response"

\* C12: when an Agent sends Target.setDiscoverTargets with discover=true while
\* a Browser is connected, that Agent is sent one Target.targetCreated event
\* per target of the registry, each with the target's current info, and then
\* the empty-result reply to its command; nothing goes to the Browser or to
\* another Agent
C12_DiscoverSynthesizesTargets ==
    [][\A s \in getMcpWebSockets :
          (/\ commands' # commands
           /\ getExtensionWebSocket # {}
           /\ ~s.closing
           /\ handleMcpMessage(s, "Target.setDiscoverTargets", [discover |-> TRUE],
                               NoSession))
          => LET n == Len(connectedTargets)
             IN /\ Len(sent') = n + 1
                /\ \A i \in 1..Len(sent') : Delivered(sent'[i], s.sid)
                /\ \A i \in 1..n :
                      /\ IsEvent(sent'[i].msg, "Target.targetCreated")
                      /\ \A k \in DOMAIN connectedTargets[i].targetInfo :
                            sent'[i].msg.params.targetInfo[k]
                              = connectedTargets[i].targetInfo[k]
                /\ sent'[n + 1].msg = ResultResponse(commands + 1, NoSession, EmptyMap)
                /\ messageId' = messageId
                /\ pendingRequests' = pendingRequests]_vars

\* two targets are announced to one of two Agents, ahead of its reply
C12_Witness ==
    /\ Len(connectedTargets) = 2
    /\ Cardinality(getMcpWebSockets) = 2
    /\ Len(sent) = 3
    /\ IsEvent(sent[1].msg, "Target.targetCreated") /\ sent[1].ok
    /\ IsEvent(sent[2].msg, "Target.targetCreated")
    /\ IsResponse(sent[3].msg)

IsForward(msg, method) ==
    /\ "type" \notin DOMAIN msg
    /\ msg.method = "forwardCDPCommand"
    /\ msg.params.method = method

\* the pending calls that the step settles
Answered == DOMAIN pendingRequests \ DOMAIN pendingRequests'

\* C13: Target.setAutoAttach without a sessionId sends the requesting Agent,
\* and nobody else, one Target.attachedToTarget event (attached: true,
\* waitingForDebugger: false) per target of the registry and then the
\* empty-result reply, and forwards nothing; with a sessionId the command is
\* forwarded to the Browser, and neither the command nor the Browser's answer
\* to it brings a synthesized event
C13_AutoAttachSynthesizesSessions ==
    [][/\ \A s \in getMcpWebSockets :
            (/\ commands' # commands
             /\ getExtensionWebSocket # {}
             /\ ~s.closing
             /\ handleMcpMessage(s, "Target.setAutoAttach", NoParams, NoSession))
            => LET n == Len(connectedTargets)
               IN /\ Len(sent') = n + 1
                  /\ \A i \in 1..Len(sent') : Delivered(sent'[i], s.sid)
                  /\ \A i \in 1..n :
                        /\ IsEvent(sent'[i].msg, "Target.attachedToTarget")
                        /\ sent'[i].msg.params.sessionId = connectedTargets[i].sessionId
                        /\ sent'[i].msg.params.targetInfo.targetId
                             = connectedTargets[i].targetId
                        /\ "attached" \in DOMAIN sent'[i].msg.params.targetInfo
                        /\ sent'[i].msg.params.targetInfo.attached
                        /\ ~sent'[i].msg.params.waitingForDebugger
                  /\ sent'[n + 1].msg = ResultResponse(commands + 1, NoSession, EmptyMap)
                  /\ messageId' = messageId
                  /\ pendingRequests' = pendingRequests
       /\ \A s \in getMcpWebSockets :
            (/\ commands' # commands
             /\ getExtensionWebSocket # {}
             /\ handleMcpMessage(s, "Target.setAutoAttach", NoParams, "s1"))
            => /\ Len(sent') = 1
               /\ \E x \in getExtensionWebSocket : Delivered(sent'[1], x.sid)
               /\ IsForward(sent'[1].msg, "Target.setAutoAttach")
       /\ \A id \in Answered :
            pendingRequests[id].command.method = "Target.setAutoAttach"
            => \A i \in 1..Len(sent') :
                  "type" \in DOMAIN sent'[i].msg => sent'[i].msg.type # "event"]_vars

\* two sessions are announced to one of two Agents, ahead of its reply
C13_Witness ==
    /\ Len(connectedTargets) = 2
    /\ Cardinality(getMcpWebSockets) = 2
    /\ Len(sent) = 3
    /\ IsEvent(sent[1].msg, "Target.attachedToTarget") /\ sent[1].ok
    /\ IsEvent(sent[2].msg, "Target.attachedToTarget")
    /\ IsResponse(sent[3].msg)

\* C14: Target.attachToTarget with a targetId that a registry entry has is
\* answered with that entry's sessionId, after one Target.attachedToTarget
\* event for that session sent to the requester only; with a targetId that no
\* entry has it is answered with the error 'Target {id} not found in connected
\* targets' and no event; either way the registry stays as it is and nothing
\* is forwarded to the Browser
C14_AttachAnswersFromRegistry ==
    [][\A s \in getMcpWebSockets, targetId \in TargetIds :
          (/\ commands' # commands
           /\ getExtensionWebSocket # {}
           /\ ~s.closing
           /\ handleMcpMessage(s, "Target.attachToTarget", [targetId |-> targetId],
                               NoSession))
          => /\ IF \E i \in 1..Len(connectedTargets) :
                      connectedTargets[i].targetId = targetId
                THEN /\ Len(sent') = 2
                     /\ \E i \in 1..Len(connectedTargets) :
                          /\ connectedTargets[i].targetId = targetId
                          /\ IsEvent(sent'[1].msg, "Target.attachedToTarget")
                          /\ sent'[1].msg.params.sessionId = connectedTargets[i].sessionId
                          /\ sent'[2].msg =
                               ResultResponse(commands + 1, NoSession,
                                   [sessionId |-> connectedTargets[i].sessionId])
                ELSE /\ Len(sent') = 1
                     /\ sent'[1].msg =
                          ErrorResponse(commands + 1, NoSession,
                              <<"Target ", targetId, " not found in connected targets">>)
             /\ \A i \in 1..Len(sent') : Delivered(sent'[i], s.sid)
             /\ connectedTargets' = connectedTargets
             /\ messageId' = messageId
             /\ pendingRequests' = pendingRequests]_vars

\* a target with two sessions is attached to: one event, then the reply that
\* names a session, while another Agent is connected
C14_Witness ==
    /\ Len(connectedTargets) = 2
    /\ connectedTargets[1].targetId = connectedTargets[2].targetId
    /\ Cardinality(getMcpWebSockets) = 2
    /\ Len(sent) = 2
    /\ IsEvent(sent[1].msg, "Target.attachedToTarget") /\ sent[1].ok
    /\ IsResponse(sent[2].msg)
    /\ "result" \in DOMAIN sent[2].msg
    /\ "sessionId" \in DOMAIN sent[2].msg.result

\* C15: a command the router does not answer itself goes to the Browser once,
\* as { id: n, method: 'forwardCDPCommand', params: { method, params,
\* sessionId } } with n the id allocated for it, and what the Browser answers
\* for n, result or error, goes to the Agent in a reply that carries the
\* Agent's command id and sessionId
C15_ForwardedOnceAnsweredUnderOwnId ==
    [][/\ \A s \in getMcpWebSockets, c \in RouterCommands :
            (/\ commands' # commands
             /\ c[1] = "Page.navigate" \/ (c[1] = "Target.setAutoAttach" /\ c[3] # NoSession)
             /\ getExtensionWebSocket # {}
             /\ handleMcpMessage(s, c[1], c[2], c[3]))
            => /\ messageId' = messageId + 1
               /\ messageId' \notin DOMAIN pendingRequests
               /\ Len(sent') = 1
               /\ \E x \in getExtensionWebSocket : Delivered(sent'[1], x.sid)
               /\ sent'[1].msg =
                    [id |-> messageId', method |-> "forwardCDPCommand",
                     params |-> [method |-> c[1], params |-> c[2], sessionId |-> c[3]]]
       /\ (sent' # sent /\ \E i \in 1..Len(sent') : "type" \notin DOMAIN sent'[i].msg)
            => Len(sent') = 1 /\ messageId' = messageId + 1
       /\ \A n \in DOMAIN pendingRequests, result \in BrowserResults,
            error \in BrowserErrors :
            (/\ n \notin DOMAIN pendingRequests'
             /\ IsOpen(pendingRequests[n].ws)
             /\ handleExtensionResponse(n, result, error))
            => LET command == pendingRequests[n].command
               IN /\ Len(sent') = 1
                  /\ Delivered(sent'[1], pendingRequests[n].ws)
                  /\ sent'[1].msg =
                       IF error = ""
                       THEN [type |-> "response", id |-> command.id,
                             sessionId |-> command.sessionId, result |-> result]
                       ELSE [type |-> "response", id |-> command.id,
                             sessionId |-> command.sessionId,
                             error |-> [message |-> <<error>>]]]_vars

\* the Browser's result for call 1 reaches the Agent under the Agent's id 2
C15_Witness ==
    /\ messageId = 1
    /\ pendingRequests = EmptyMap
    /\ Len(sent) = 1
    /\ sent[1].ok
    /\ IsResponse(sent[1].msg)
    /\ sent[1].msg.id = 2
    /\ sent[1].msg.sessionId = "s1"
    /\ "result" \in DOMAIN sent[1].msg
    /\ sent[1].msg.result \in BrowserResults

\* C17: for one Agent, the reply to a command comes after the events
\* synthesized for that command, and before the reply to any command the
\* Agent sent later: when a reply is delivered, no earlier command of that
\* Agent is still waiting for its own
C17_RepliesInCommandOrder ==
    [][sent' # sent =>
         \A i \in 1..Len(sent') :
            (IsResponse(sent'[i].msg) /\ sent'[i].ok)
            => /\ \A j \in (i + 1)..Len(sent') : sent'[j].to # sent'[i].to
               /\ \A a \in awaiting :
                     a[1] = sent'[i].to => a[2] >= sent'[i].msg.id]_vars

\* the commands that the step stops waiting for
Relieved == awaiting \ awaiting'

\* the delivered replies among the frames of the step, as <<socket id, id>>
Replied ==
    IF sent' = sent THEN {}
    ELSE {<<sent'[i].to, sent'[i].msg.id>> :
            i \in {j \in 1..Len(sent') : IsResponse(sent'[j].msg) /\ sent'[j].ok}}

\* C16: every command an Agent sends gets one reply with its id if the Agent's
\* socket stays open, be it answered by the router, by the Browser, or by
\* nobody until the deadline; and no command gets a second reply
C16_ExactlyOneReply ==
    /\ \A id \in 1..MaxCommands :
          (\E a \in awaiting : a[2] = id) ~> (\A a \in awaiting : a[2] # id)
    /\ [][/\ \A a \in Relieved : a \in Replied \/ ~IsOpen(a[1])'
          /\ \A a \in Replied :
                /\ Cardinality({i \in 1..Len(sent') :
                        IsResponse(sent'[i].msg) /\ sent'[i].msg.id = a[2]}) = 1
                /\ \/ a \in Relieved
                   \/ commands' = commands + 1 /\ a[2] = commands'
          /\ \A s \in getMcpWebSockets, c \in LiveCommands :
                (~s.closing /\ handleMcpMessage(s, c[1], c[2], c[3]))
                => \/ <<s.sid, commands'>> \in Replied
                   \/ <<s.sid, commands'>> \in awaiting']_vars

\* the deadline answers a command that the Browser left unanswered
C16_Witness ==
    /\ awaiting = {}
    /\ messageId = 1
    /\ Len(sent) = 1
    /\ sent[1].ok
    /\ IsResponse(sent[1].msg)
    /\ "error" \in DOMAIN sent[1].msg
    /\ sent[1].msg.error.message = TimeoutError("Page.navigate")

\* C18: a broadcast reaches every Agent registered when it starts, except an
\* Agent the send to which fails, and a failing send to one Agent keeps the
\* event from no other
C18_FailedSendIsIsolated ==
    [][\A event \in FanoutEvents :
          handleExtensionEvent(event)
          => \A s \in getMcpWebSockets :
                \/ \E i \in 1..Len(sent') : Delivered(sent'[i], s.sid)
                \/ s.closing]_vars

\* C19: every event of the Browser goes to every Agent as it came (method,
\* params, sessionId), after the registry has taken it in, and to no Browser
\* or Local socket
C19_EventsReachEveryAgentUnchanged ==
    [][\A event \in FanoutEvents :
          handleExtensionEvent(event)
          => /\ connectedTargets' = TrackTargets(connectedTargets, event)
             /\ \A s \in getMcpWebSockets :
                   ~s.closing
                   => \E i \in 1..Len(sent') :
                         /\ Delivered(sent'[i], s.sid)
                         /\ sent'[i].msg.method = event.method
                         /\ sent'[i].msg.params = event.params
                         /\ sent'[i].msg.sessionId = event.sessionId
             /\ \A i \in 1..Len(sent') :
                   \E s \in getMcpWebSockets : sent'[i].to = s.sid]_vars

\* C20: the close of the Browser's socket leaves the target registry empty and
\* the Browser pending table empty, rejects every call that was pending with
\* 'Extension connection closed', and closes every registered Agent socket
\* with code 1000 and reason 'Extension disconnected'; it leaves the ledger,
\* the Local peer and the pending Local requests as they were
C20_BrowserCloseTearsDown ==
    [][\A s \in getExtensionWebSocket :
          webSocketClose(s)
          => /\ connectedTargets' = <<>>
             /\ pendingRequests' = EmptyMap
             /\ \A n \in DOMAIN pendingRequests :
                   \E i \in 1..Len(sent') :
                      /\ sent'[i].to = pendingRequests[n].ws
                      /\ IsResponse(sent'[i].msg)
                      /\ sent'[i].msg.id = pendingRequests[n].command.id
                      /\ "error" \in DOMAIN sent'[i].msg
                      /\ sent'[i].msg.error.message = <<"Extension connection closed">>
             /\ \A a \in getMcpWebSockets :
                   /\ \E i \in 1..Len(sent') :
                         /\ sent'[i].to = a.sid
                         /\ sent'[i].msg = [type |-> "close", code |-> 1000,
                                            reason |-> "Extension disconnected"]
                   /\ [a EXCEPT !.closing = TRUE] \in sockets'
             /\ fileReadTimestamps' = fileReadTimestamps
             /\ pendingLocalRequests' = pendingLocalRequests
             /\ getLocalWebSocket' = getLocalWebSocket]_vars

\* the Browser has just closed with a command of an Agent pending, two
\* Agents connected, a file in the ledger and a read pending at the Local
\* peer
C20_Witness ==
    /\ getExtensionWebSocket = {}
    /\ connectedTargets = <<>>
    /\ Cardinality({a \in getMcpWebSockets : a.closing}) = 2
    /\ Len(sent) = 3
    /\ sent[1].msg = CloseFrame /\ sent[1].ok
    /\ sent[2].msg = CloseFrame /\ sent[2].ok
    /\ IsResponse(sent[3].msg) /\ ~sent[3].ok
    /\ "/a" \in DOMAIN fileReadTimestamps
    /\ pendingLocalRequests # EmptyMap
    /\ getLocalWebSocket # {}

\* C21: the close of the Local peer's socket leaves the ledger empty and the
\* Local pending table empty, and rejects every call that was pending with
\* 'Local client connection closed'; the Agent sockets, the Browser's socket,
\* the target registry, the pending Browser requests and both id counters
\* stay as they were
C21_LocalCloseClearsLedger ==
    [][\A s \in getLocalWebSocket :
          webSocketClose(s)
          => /\ fileReadTimestamps' = EmptyMap
             /\ pendingLocalRequests' = EmptyMap
             /\ DOMAIN rejected' = DOMAIN pendingLocalRequests
             /\ \A id \in DOMAIN pendingLocalRequests :
                   rejected'[id] = <<"Local client connection closed">>
             /\ getMcpWebSockets' = getMcpWebSockets
             /\ getExtensionWebSocket' = getExtensionWebSocket
             /\ connectedTargets' = connectedTargets
             /\ pendingRequests' = pendingRequests
             /\ messageId' = messageId
             /\ localMessageId' = localMessageId]_vars

\* the Local peer has just closed after one read was answered and with a
\* second one pending, while the Browser, a target, a pending command and two
\* Agents are there
C21_Witness ==
    /\ getLocalWebSocket = {}
    /\ localMessageId = 2
    /\ DOMAIN rejected = {2}
    /\ rejected[2] = LocalConnectionClosedError
    /\ fileReadTimestamps = EmptyMap
    /\ getExtensionWebSocket # {}
    /\ Len(connectedTargets) = 1
    /\ pendingRequests # EmptyMap
    /\ Cardinality({a \in getMcpWebSockets : ~a.closing}) = 2

\* the pending calls of a table, without the socket each one holds
Calls(pending) ==
    [id \in DOMAIN pending |->
        [mcpClientId |-> pending[id].mcpClientId, command |-> pending[id].command]]

\* C22: the close of an Agent's socket takes that socket out of the set the
\* fan-out and the admission of its client id look at, and changes nothing
\* else: the other sockets, the target registry, the ledger, both pending
\* tables (the calls of that Agent's commands included), both counters, the
\* timers and the keepalive timer stay, and no frame is sent; and when the
\* Browser later answers a call of that Agent, the call leaves the table, no
\* frame reaches any socket and the rest of the room stays as it was
C22_AgentCloseChangesNothingElse ==
    [][/\ \A s \in getMcpWebSockets :
            webSocketClose(s)
            => /\ sockets' = sockets \ {s}
               /\ getMcpWebSocket(s.tag[2])' = {}
               /\ sent' = <<>>
               /\ connectedTargets' = connectedTargets
               /\ fileReadTimestamps' = fileReadTimestamps
               /\ Calls(pendingRequests') = Calls(pendingRequests)
               /\ pendingLocalRequests' = pendingLocalRequests
               /\ messageId' = messageId
               /\ localMessageId' = localMessageId
               /\ timers' = timers
               /\ pingInterval' = pingInterval
       /\ \A id \in DOMAIN pendingRequests, result \in BrowserResults,
            error \in BrowserErrors :
            (/\ id \notin DOMAIN pendingRequests'
             /\ pendingRequests[id].ws = Gone
             /\ handleExtensionResponse(id, result, error))
            => /\ \A i \in 1..Len(sent') : ~sent'[i].ok /\ sent'[i].to = Gone
               /\ sockets' = sockets
               /\ connectedTargets' = connectedTargets
               /\ fileReadTimestamps' = fileReadTimestamps
               /\ pendingRequests' = Delete(pendingRequests, id)
               /\ pendingLocalRequests' = pendingLocalRequests
               /\ messageId' = messageId
               /\ localMessageId' = localMessageId
               /\ pingInterval' = pingInterval]_vars

\* the Browser's result for a command of an Agent that has left was dropped,
\* while the other Agent, the Browser with a target, the Local peer and the
\* ledger are there
C22_Witness ==
    /\ Len(sent) = 2
    /\ \A i \in 1..2 : sent[i].to = Gone /\ ~sent[i].ok /\ IsResponse(sent[i].msg)
    /\ "result" \in DOMAIN sent[1].msg
    /\ Cardinality({a \in getMcpWebSockets : ~a.closing}) = 1
    /\ getExtensionWebSocket # {}
    /\ getLocalWebSocket # {}
    /\ Len(connectedTargets) = 1
    /\ "/a" \in DOMAIN fileReadTimestamps
    /\ pendingRequests # EmptyMap

\* C23: when the deadline of a forwarded command fires with its call still
\* pending, the call leaves the table, the Agent that sent the command is sent
\* one reply, the error 'Extension request timeout after 30000ms: {method}'
\* under the command's own id and sessionId, and nobody else is sent anything;
\* the Browser stays registered, and the target registry and the other
\* pending calls stay as they were
C23_DeadlineAnswersWithTimeout ==
    [][\A id \in DOMAIN pendingRequests :
          (/\ id \notin DOMAIN pendingRequests'
           /\ extensionTimeout(id))
          => LET p == pendingRequests[id]
             IN /\ pendingRequests' = Delete(pendingRequests, id)
                /\ IsOpen(p.ws)
                   => /\ Len(sent') = 1
                      /\ Delivered(sent'[1], p.ws)
                      /\ sent'[1].msg =
                           [type |-> "response", id |-> p.command.id,
                            sessionId |-> p.command.sessionId,
                            error |-> [message |->
                               <<"Extension request timeout after ", "30000", "ms: ",
                                 p.command.method>>]]
                /\ \A i \in 1..Len(sent') : sent'[i].to = p.ws
                /\ getExtensionWebSocket' = getExtensionWebSocket
                /\ getExtensionWebSocket # {}
                /\ connectedTargets' = connectedTargets
                /\ messageId' = messageId]_vars

\* the deadline of call 1 has answered the command of an Agent while call 2,
\* the Browser and a target stay
C23_Witness ==
    /\ DOMAIN pendingRequests = {2}
    /\ timers = {2}
    /\ Len(sent) = 1
    /\ sent[1].ok
    /\ IsResponse(sent[1].msg)
    /\ sent[1].msg.id = 1
    /\ "error" \in DOMAIN sent[1].msg
    /\ sent[1].msg.error.message = TimeoutError("Page.navigate")
    /\ getExtensionWebSocket # {}
    /\ Len(connectedTargets) = 1

\* C24: a command that an Agent sends while no Browser is registered, be it
\* one the router answers itself when a Browser is there or one it forwards,
\* is answered with the one reply { id, sessionId, error: { message:
\* 'Extension not connected' } } to that Agent; the Agent's socket stays, no
\* id is allocated and nothing else of the room changes
C24_NoBrowserNoRouting ==
    [][\A s \in getMcpWebSockets, c \in LiveCommands :
          (/\ commands' # commands
           /\ getExtensionWebSocket = {}
           /\ ~s.closing
           /\ handleMcpMessage(s, c[1], c[2], c[3]))
          => /\ sent' = <<[to |-> s.sid, ok |-> TRUE,
                           msg |-> [type |-> "response", id |-> commands + 1,
                                    sessionId |-> c[3],
                                    error |-> [message |-> <<"Extension not connected">>]]]>>
             /\ sockets' = sockets
             /\ messageId' = messageId
             /\ pendingRequests' = pendingRequests
             /\ timers' = timers
             /\ connectedTargets' = connectedTargets
             /\ pingInterval' = pingInterval
             /\ UNCHANGED <<relayFileVars, wireVars, localVars>>]_vars

\* Browser.getVersion, sent by an Agent that came before any Browser (no id
\* was ever allocated), has been answered with the error
C24_Witness ==
    /\ getExtensionWebSocket = {}
    /\ messageId = 0
    /\ commands = 1
    /\ Len(sent) = 1
    /\ sent[1].ok
    /\ \E s \in getMcpWebSockets : sent[1].to = s.sid /\ ~s.closing
    /\ sent[1].msg = ErrorResponse(1, NoSession, ExtensionNotConnectedError)

\* the ids this step enters into a pending table
Dispatched(before, after) == DOMAIN after \ DOMAIN before

\* C25: in each multiplexer, the Browser's and the Local peer's, the id of a
\* dispatch is greater than every id dispatched before, whatever peers have
\* closed and come back in between: the counter never goes down, every pending
\* id is one the counter has passed, and a dispatch enters one new id, the
\* counter's new value, which was not pending, into the table and leaves the
\* other entries as they were
C25_IdsIncrease ==
    /\ [](/\ \A id \in DOMAIN pendingRequests : id \in 1..messageId
          /\ \A id \in DOMAIN pendingLocalRequests : id \in 1..localMessageId)
    /\ [][/\ messageId' >= messageId
          /\ localMessageId' >= localMessageId
          /\ Dispatched(pendingRequests, pendingRequests') # {}
             => /\ messageId' > messageId
                /\ Dispatched(pendingRequests, pendingRequests') = {messageId'}
                /\ \A id \in DOMAIN pendingRequests :
                      pendingRequests'[id] = pendingRequests[id]
                /\ sent'[Len(sent')].msg.id = messageId'
          /\ Dispatched(pendingLocalRequests, pendingLocalRequests') # {}
             => /\ localMessageId' > localMessageId
                /\ Dispatched(pendingLocalRequests, pendingLocalRequests')
                     = {localMessageId'}
                /\ \A id \in DOMAIN pendingLocalRequests :
                      pendingLocalRequests'[id] = pendingLocalRequests[id]
                /\ toLocal'[Len(toLocal')].id = localMessageId'
          /\ messageId' # messageId
             => Dispatched(pendingRequests, pendingRequests') # {}
          /\ localMessageId' # localMessageId
             => Dispatched(pendingLocalRequests, pendingLocalRequests') # {}]_vars

\* in each multiplexer call 1 went with its peer, and call 2, dispatched to
\* the peer that came after, is pending
C25_Witness ==
    /\ messageId = 2
    /\ DOMAIN pendingRequests = {2}
    /\ localMessageId = 2
    /\ DOMAIN pendingLocalRequests = {2}

\* the back-end peers that are registered
Backends == getExtensionWebSocket \cup getLocalWebSocket

\* C28: the keepalive timer is set in every state where a Browser or a Local
\* peer is registered, and in no other, whatever the order in which Browser,
\* Local peer and Agents connect and close (startPingInterval clears the timer
\* it finds before it sets one, so the timer that is set is the only one); a
\* tick sends { method: 'ping' } to the Browser and to the Local peer,
\* whichever is registered, and nothing to an Agent
C28_KeepaliveWhileBackend ==
    /\ [](pingInterval <=> Backends # {})
    /\ [][pingTick
          => /\ Len(sent') = Cardinality(Backends)
             /\ \A b \in Backends :
                   \E i \in 1..Len(sent') :
                      Delivered(sent'[i], b.sid) /\ sent'[i].msg = [method |-> "ping"]
             /\ \A i \in 1..Len(sent'), a \in getMcpWebSockets : sent'[i].to # a.sid]_vars

\* a tick has pinged the Local peer, which stayed when the Browser left, with
\* an Agent connected
C28_Witness ==
    /\ pingInterval
    /\ getExtensionWebSocket = {}
    /\ getLocalWebSocket # {}
    /\ getMcpWebSockets # {}
    /\ messageId = 1
    /\ Len(sent) = 1
    /\ sent[1].msg = Ping
    /\ \E b \in getLocalWebSocket : Delivered(sent[1], b.sid)

\* C29: a pending call is completed once, by the Browser's response with its
\* id, by its deadline, or by the close of the Browser's socket: its timer is
\* pending exactly while its entry is, it leaves the table in a step of one of
\* these three, and that step delivers at most one reply for its command, and
\* one if the Agent's socket is open.  A response with an id that is not
\* pending sends nothing and changes nothing; the close of the Browser sends
\* replies for the calls that are pending and for no other; and every reply
\* that is delivered answers a command that was waiting for one
C29_CompletedOnce ==
    /\ [](timers = DOMAIN pendingRequests)
    /\ [][/\ \A id \in Answered :
                LET p == pendingRequests[id]
                    replies == {i \in 1..Len(sent') :
                                  /\ IsResponse(sent'[i].msg)
                                  /\ sent'[i].msg.id = p.command.id
                                  /\ sent'[i].ok}
                IN /\ \/ \E result \in BrowserResults, error \in BrowserErrors :
                            handleExtensionResponse(id, result, error)
                      \/ extensionTimeout(id)
                      \/ \E s \in getExtensionWebSocket : webSocketClose(s)
                   /\ Cardinality(replies) <= 1
                   /\ (\E x \in sockets' : x.sid = p.ws /\ ~x.closing)
                      => Cardinality(replies) = 1
                   /\ \A i \in replies : sent'[i].to = p.ws
          /\ \A id \in 1..MaxCommands, result \in BrowserResults,
               error \in BrowserErrors :
               (id \notin DOMAIN pendingRequests
                /\ handleExtensionResponse(id, result, error))
               => /\ sent' = <<>>
                  /\ UNCHANGED <<connectedTargets, pendingRequests, messageId, commands,
                                 awaiting, timers>>
                  /\ UNCHANGED <<admissionVars, relayFileVars, wireVars, localVars>>
          /\ \A s \in getExtensionWebSocket :
               webSocketClose(s)
               => \A i \in 1..Len(sent') :
                     IsResponse(sent'[i].msg)
                     => \E id \in DOMAIN pendingRequests :
                           /\ pendingRequests[id].command.id = sent'[i].msg.id
                           /\ pendingRequests[id].ws = sent'[i].to
          /\ \A a \in Replied :
               \/ a \in Relieved
               \/ commands' = commands + 1 /\ a[2] = commands']_vars

\* of two calls, one was completed while the Browser was there and the other
\* by the close of the Browser's socket, which has sent a reply for that one
\* only
C29_Witness ==
    /\ getExtensionWebSocket = {}
    /\ messageId = 2
    /\ pendingRequests = EmptyMap
    /\ timers = {}
    /\ Cardinality({i \in 1..Len(sent) : IsResponse(sent[i].msg)}) = 1
    /\ \E i \in 1..Len(sent) :
          /\ IsResponse(sent[i].msg)
          /\ "error" \in DOMAIN sent[i].msg
          /\ sent[i].msg.error.message = ConnectionClosedError

\* the peers and the volatile state of the room
Volatile ==
    <<sockets, pingInterval, connectedTargets, pendingRequests, messageId, timers,
      fileReadTimestamps, pendingLocalRequests, localMessageId>>

\* C26: the step that answers an admission request with 401, 403, 404 or 409
\* leaves the registered sockets, the target registry, the ledger, both
\* pending tables, both counters and the keepalive timer as they were, and so
\* does every earlier step of that request: only the step that answers 101
\* touches any of them
C26_RefusalLeavesRoom ==
    [][/\ \A d \in NewResponses :
             d.status \in {401, 403, 404, 409} => Volatile' = Volatile
       /\ (req' # req /\ \A d \in NewResponses : d.status # 101)
             => Volatile' = Volatile]_vars

\* a second Browser is refused with 409 and a wrong passphrase with 403, with
\* the first Browser registered, a target, a pending command and the ledger
C26_Witness ==
    /\ \E d \in Frames : d.pc = "done" /\ d.path = <<"extension">> /\ d.status = 409
    /\ \E d \in Frames : d.pc = "done" /\ d.status = 403
    /\ [sid |-> 1, tag |-> <<"extension">>, closing |-> FALSE] \in sockets
    /\ Cardinality(sockets) = 4
    /\ Len(connectedTargets) = 1
    /\ pendingRequests # EmptyMap
    /\ "/a" \in DOMAIN fileReadTimestamps
    /\ pingInterval

\* C27: a hibernation that happens while the Browser or the Local peer is
\* connected takes nothing from the room: the handler that the next message
\* wakes finds the target registry, the ledger and both id counters as they
\* were before
C27_WakeKeepsRoomState ==
    [][(Hibernate /\ Backends # {})
          => /\ connectedTargets' = connectedTargets
             /\ fileReadTimestamps' = fileReadTimestamps
             /\ messageId' = messageId
             /\ localMessageId' = localMessageId]_vars

\* C30: Target.detachFromTarget with a sessionId parameter that is not a key
\* of the registry is answered by the router with an empty result, and
\* nothing goes to the Browser; with a sessionId that is a key, or without
\* the parameter, it is forwarded to the Browser.  Neither the command nor the
\* Browser's answer to it changes the registry: the entry goes when the
\* Browser sends Target.detachedFromTarget for its session
C30_DetachOfUnknownSessionIsLocal ==
    [][/\ \A s \in getMcpWebSockets, params \in DetachParams :
            (/\ commands' # commands
             /\ ~s.closing
             /\ handleMcpMessage(s, "Target.detachFromTarget", params, NoSession))
            => /\ connectedTargets' = connectedTargets
               /\ IF /\ "sessionId" \in DOMAIN params
                     /\ \A i \in 1..Len(connectedTargets) :
                           connectedTargets[i].sessionId # params.sessionId
                  THEN /\ sent' = <<[to |-> s.sid, ok |-> TRUE,
                                    msg |-> [type |-> "response", id |-> commands + 1,
                                             sessionId |-> NoSession,
                                             result |-> EmptyMap]]>>
                       /\ messageId' = messageId
                       /\ pendingRequests' = pendingRequests
                  ELSE /\ Len(sent') = 1
                       /\ \E x \in getExtensionWebSocket : Delivered(sent'[1], x.sid)
                       /\ sent'[1].msg =
                            [id |-> messageId + 1, method |-> "forwardCDPCommand",
                             params |-> [method |-> "Target.detachFromTarget",
                                         params |-> params, sessionId |-> NoSession]]
                       /\ DOMAIN pendingRequests' = DOMAIN pendingRequests \cup {messageId + 1}
       /\ Answered # {} => connectedTargets' = connectedTargets
       /\ Len(connectedTargets') < Len(connectedTargets)
            => handleExtensionEvent(DetachEvent)]_vars

\* the detach of the session the registry holds went to the Browser, after a
\* detach of another session that the router answered itself, and the entry is
\* still there
C30_Witness ==
    /\ Len(connectedTargets) = 1
    /\ connectedTargets[1].sessionId = "s1"
    /\ commands = 2
    /\ messageId = 1
    /\ DOMAIN pendingRequests = {1}
    /\ pendingRequests[1].command.id = 2
    /\ Len(sent) = 1
    /\ IsForward(sent[1].msg, "Target.detachFromTarget")
    /\ sent[1].msg.params.params = [sessionId |-> "s1"]

\* the commands of StateCommands that the router answers itself
AnsweredFromState ==
    {c \in StateCommands :
        c[1] \in {"Browser.getVersion", "Browser.setDownloadBehavior",
                  "Target.getTargets", "Target.getTargetInfo"}}

\* C31: with a Browser connected, Browser.getVersion,
\* Browser.setDownloadBehavior, Target.getTargets and Target.getTargetInfo are
\* answered from the relay's state: the requester gets one result reply,
\* nothing is sent to the Browser, no id is allocated, and the registry and
\* the pending table are unchanged; Target.getTargets returns the registry's
\* entries, one for one and in order, each marked attached: true
C31_AnsweredFromRelayState ==
    [][\A s \in getMcpWebSockets, c \in AnsweredFromState :
          (/\ commands' # commands
           /\ ~s.closing
           /\ getExtensionWebSocket # {}
           /\ handleMcpMessage(s, c[1], c[2], c[3]))
          => /\ Len(sent') = 1
             /\ sent'[1].to = s.sid
             /\ sent'[1].ok
             /\ \A x \in getExtensionWebSocket : sent'[1].to # x.sid
             /\ DOMAIN sent'[1].msg = {"type", "id", "sessionId", "result"}
             /\ sent'[1].msg.type = "response"
             /\ sent'[1].msg.id = commands + 1
             /\ messageId' = messageId
             /\ timers' = timers
             /\ pendingRequests' = pendingRequests
             /\ connectedTargets' = connectedTargets
             /\ c[1] = "Browser.setDownloadBehavior" => sent'[1].msg.result = EmptyMap
             /\ c[1] = "Browser.getVersion" =>
                   sent'[1].msg.result.product = "Chrome/Cloudflare-Relay"
             /\ c[1] = "Target.getTargets" =>
                   LET infos == sent'[1].msg.result.targetInfos
                   IN /\ Len(infos) = Len(connectedTargets)
                      /\ \A i \in 1..Len(infos) :
                            /\ infos[i].attached
                            /\ infos[i].targetId = connectedTargets[i].targetInfo.targetId
                            /\ infos[i].url = connectedTargets[i].targetInfo.url
                            /\ infos[i].title = connectedTargets[i].targetInfo.title
             /\ c[1] = "Target.getTargetInfo" =>
                   \/ /\ connectedTargets = <<>>
                      /\ sent'[1].msg.result.targetInfo = NoParams
                   \/ \E i \in 1..Len(connectedTargets) :
                         sent'[1].msg.result.targetInfo = connectedTargets[i].targetInfo]_vars

\* Target.getTargets was answered with the two targets of the registry while
\* a forwarded command waits for the Browser under id 1
C31_Witness ==
    /\ Len(connectedTargets) = 2
    /\ DOMAIN pendingRequests = {1}
    /\ messageId = 1
    /\ commands = 2
    /\ Len(sent) = 1
    /\ sent[1].ok
    /\ "result" \in DOMAIN sent[1].msg
    /\ "targetInfos" \in DOMAIN sent[1].msg.result
    /\ Len(sent[1].msg.result.targetInfos) = 2
    /\ sent[1].msg.result.targetInfos[2].attached

\* C32: a frame that is not JSON, from any peer, and a pong or log envelope
\* from the Browser or the Local peer, is consumed without effect: nothing is
\* sent to any peer, no socket is closed, and the registry, the ledger, the
\* pending tables and the counters are unchanged; a keepalive tick closes no
\* socket, however many pongs are missing, and a back-end socket leaves the
\* room only when the transport closes it
C32_NoiseIsDropped ==
    [][/\ \A s \in sockets, frame \in NoiseFrames :
            webSocketMessage(s, frame)
            => /\ sent' = <<>>
               /\ sockets' = sockets
               /\ connectedTargets' = connectedTargets
               /\ fileReadTimestamps' = fileReadTimestamps
               /\ pendingRequests' = pendingRequests
               /\ pendingLocalRequests' = pendingLocalRequests
               /\ messageId' = messageId
               /\ localMessageId' = localMessageId
               /\ timers' = timers
               /\ pingInterval' = pingInterval
       /\ pingTick => sockets' = sockets
       /\ \A s \in sockets :
            (s.tag[1] \in {"extension", "local"} /\ s \notin sockets')
            => webSocketClose(s)]_vars

\* a frame was dropped in a room whose four peers are connected, with a
\* target in the registry, a command waiting for the Browser and a read for
\* the Local peer: in that room every other handler sends something
C32_Witness ==
    /\ Cardinality(sockets) = 4
    /\ Len(connectedTargets) = 1
    /\ DOMAIN pendingRequests = {1}
    /\ DOMAIN pendingLocalRequests = {2}
    /\ "/a" \in DOMAIN fileReadTimestamps
    /\ pingInterval
    /\ sent = <<>>

\* C33: for every bash.execute call the relay's deadline is the command
\* timeout the Local peer enforces plus 5000 ms, also when the caller gives no
\* timeout and the Local peer applies its default, so that the result of a
\* kill on timeout (exit code 124) is produced before the relay's deadline
C33_DeadlineIsCommandTimeoutPlusSlack ==
    bash.phase \in {"running", "replied"}
    => /\ bash.deadline = bash.limit + 5000
       /\ bash.exitCode = 124 => bash.elapsed < bash.deadline

\* C34: at a tick of the client's ping timer with its socket open, the
\* socket is terminated exactly when the ping of the tick before has had no
\* pong: one missed pong ends the connection at the next tick, and answered
\* pings never do; and a termination is followed by a reconnect attempt of
\* the reconnect timer unless disconnect() is called
C34_MissedPongTerminatesAndReconnects ==
    /\ [][(/\ LocalPingTick
           /\ client.ws # NoSocket
           /\ client.socks[client.ws] = "open")
          => /\ (client'.socks[client.ws] = "closing") <=> (client.ws \in client.pingOut)
             /\ client.ws \notin client.pingOut => client.ws \in client'.pingOut]_vars
    /\ (client.last = "terminate") ~> (client.last = "reconnect" \/ ~client.shouldReconnect)

\* the reconnect timer has made its attempt after a termination, and the new
\* socket is open
C34_Witness ==
    /\ client.last = "reconnect"
    /\ client.shouldReconnect
    /\ client.ws # NoSocket
    /\ client.socks[client.ws] = "open"
    /\ client.pongReceived
    /\ client.pingInterval

\* C40: once disconnect() was called no reconnect timer is pending and none
\* fires, whatever closes afterwards; before that, every close leaves exactly
\* one reconnect timer pending, and there is never more than one
C40_NoReconnectAfterDisconnect ==
    /\ [](client.timeouts <= 1)
    /\ [](~client.shouldReconnect => client.timeouts = 0 /\ ~client.reconnectTimeout)
    /\ [][LocalReconnect => client.shouldReconnect]_vars
    /\ [][\A id \in DOMAIN client.socks :
            (LocalClose(id) /\ client.shouldReconnect)
            => client'.timeouts = 1 /\ client'.reconnectTimeout]_vars

\* disconnect() was called after the client had reconnected, the sockets
\* have all closed since, and nothing is scheduled
C40_Witness ==
    /\ ~client.shouldReconnect
    /\ client.last = "reconnect"
    /\ client.socks = EmptyMap
    /\ client.ws = NoSocket
    /\ client.timeouts = 0

\* C35: the reply to a forwarded command, result or error, goes to the socket
\* that sent the command and to no other: while a call is pending, its
\* requester is either gone or the open socket of that Agent, which waits for
\* that command number; and when a call settles, each reply that is sent is
\* addressed to the requester of a call settled in this step and carries
\* that call's command number, and it is delivered only if that socket still
\* waits for that number
C35_ReplyOnlyToOriginator ==
    /\ [](\A id \in DOMAIN pendingRequests :
            LET p == pendingRequests[id]
            IN p.ws # Gone
               => /\ \E x \in getMcpWebSocket(p.mcpClientId) : x.sid = p.ws
                  /\ <<p.ws, p.command.id>> \in awaiting)
    /\ [][DOMAIN pendingRequests' # DOMAIN pendingRequests /\ commands' = commands
          => \A i \in 1..Len(sent') :
                IsResponse(sent'[i].msg)
                => /\ \E id \in DOMAIN pendingRequests :
                         /\ id \notin DOMAIN pendingRequests'
                         /\ pendingRequests[id].command.id = sent'[i].msg.id
                         /\ pendingRequests[id].ws = sent'[i].to
                   /\ sent'[i].ok => <<sent'[i].to, sent'[i].msg.id>> \in awaiting]_vars

\* both Agents sent a command 1; Agent a left and came back under its client
\* id; the Browser then answered a's command, whose reply went to the socket
\* that is gone, neither to a's new connection nor to b, which still waits
\* for its command 1
C35_Witness ==
    /\ \E i \in 1..Len(sent) :
          /\ IsResponse(sent[i].msg)
          /\ sent[i].msg.id = 1
          /\ sent[i].to = Gone
          /\ ~sent[i].ok
    /\ commands = 2
    /\ getMcpWebSocket("a") # {}
    /\ awaiting = {<<3, 1>>}
    /\ DOMAIN pendingRequests = {2}
    /\ pendingRequests[2].ws = 3
    /\ getExtensionWebSocket # {}

\* C36: the error reply 'Extension connection closed' for a command whose
\* Agent is still connected when the Browser's socket closes is delivered to
\* that Agent, and precedes the close frame its socket is sent
C36_RejectionPrecedesClose ==
    \A i \in 1..Len(sent) :
        (/\ IsResponse(sent[i].msg)
         /\ "error" \in DOMAIN sent[i].msg
         /\ sent[i].msg.error.message = ConnectionClosedError
         /\ sent[i].to # Gone)
        => /\ sent[i].ok
           /\ \A j \in 1..Len(sent) :
                 (sent[j].to = sent[i].to /\ sent[j].msg = CloseFrame) => i < j

\* C37: of two file.write commands for one path that are pending at once
\* with the same expectedMtime, the Local peer answers at most one with
\* success
C37_OneOfTwoWritesSucceeds ==
    \A i, j \in 1..Len(fromLocal) :
        LET x == fromLocal[i]
            y == fromLocal[j]
        IN (/\ i < j
            /\ x.id \in DOMAIN pendingLocalRequests
            /\ y.id \in DOMAIN pendingLocalRequests
            /\ pendingLocalRequests[x.id].op = "write"
            /\ pendingLocalRequests[y.id].op = "write"
            /\ pendingLocalRequests[x.id].path = pendingLocalRequests[y.id].path
            /\ pendingLocalRequests[x.id].expectedMtime
                 = pendingLocalRequests[y.id].expectedMtime)
           => ~(x.error = "" /\ y.error = "")

\* C38: a readFile or writeFile that throws before it has sent anything, the
\* Local peer's error answer and the expiry of a deadline leave the ledger as
\* it was; the entry of a path gets a value only in the step that handles the
\* Local peer's successful answer to a pending read or write of that path,
\* and the value is the mtime of that answer; an entry goes only in the step
\* in which the Local peer's socket closes
C38_FailureLeavesLedger ==
    [][/\ (/\ thrown' # NoError
           /\ \E path \in FilePaths :
                 \/ readFile(path)
                 \/ \E content \in Contents : writeFile(path, content))
          => fileReadTimestamps' = fileReadTimestamps
       /\ (/\ handleLocalResponse
           /\ Head(fromLocal).error # "")
          => fileReadTimestamps' = fileReadTimestamps
       /\ (\E id \in DOMAIN pendingLocalRequests : localTimeout(id))
          => fileReadTimestamps' = fileReadTimestamps
       /\ \A p \in FilePaths :
             /\ (/\ p \in DOMAIN fileReadTimestamps'
                 /\ \/ p \notin DOMAIN fileReadTimestamps
                    \/ fileReadTimestamps'[p] # fileReadTimestamps[p])
                => /\ handleLocalResponse
                   /\ Head(fromLocal).error = ""
                   /\ Head(fromLocal).id \in DOMAIN pendingLocalRequests
                   /\ pendingLocalRequests[Head(fromLocal).id].path = p
                   /\ pendingLocalRequests[Head(fromLocal).id].op \in {"read", "write"}
                   /\ fileReadTimestamps'[p] = Head(fromLocal).mtime
             /\ (p \in DOMAIN fileReadTimestamps /\ p \notin DOMAIN fileReadTimestamps')
                => getLocalWebSocket # {} /\ getLocalWebSocket' = {}]_vars

\* a write of /a has just been refused by the Local peer, since another
\* program wrote the file after the read, and the entry of /a is still the
\* mtime of the read, while a read of /b is pending
C38_Witness ==
    /\ \E id \in DOMAIN rejected : rejected[id] = <<ModifiedError>>
    /\ fileReadTimestamps = Put(EmptyMap, "/a", 0)
    /\ fs["/a"] = MaxMtime
    /\ \E id \in DOMAIN pendingLocalRequests : pendingLocalRequests[id].path = "/b"
    /\ getLocalWebSocket # {}

\* C39: the registry is held as the values of the Map in insertion order, a
\* value's key being its sessionId: in every reachable state no two entries
\* have the same sessionId, so that each is stored under its own sessionId
\* and under no other key, and the targetId of each entry is the targetId
\* inside its info
C39_EntryMatchesKeyAndInfo ==
    /\ \A i, j \in 1..Len(connectedTargets) :
          connectedTargets[i].sessionId = connectedTargets[j].sessionId => i = j
    /\ \A i \in 1..Len(connectedTargets) :
          /\ connectedTargets[i].sessionId \in SessionIds
          /\ IndexOfSession(connectedTargets, connectedTargets[i].sessionId) = i
          /\ connectedTargets[i].targetId = connectedTargets[i].targetInfo.targetId

\* two sessions of the target t1, the one attached first under s2; s1 was
\* attached with the title T0 and the url u0 and has navigated to u1 since,
\* and the info of t1 has changed to the title T1 in the entry of s2
C39_Witness ==
    /\ Len(connectedTargets) = 2
    /\ connectedTargets[1].sessionId = "s2"
    /\ connectedTargets[2].sessionId = "s1"
    /\ connectedTargets[1].targetId = "t1"
    /\ connectedTargets[2].targetId = "t1"
    /\ connectedTargets[1].targetInfo = [targetId |-> "t1", url |-> "u0", title |-> "T1"]
    /\ connectedTargets[2].targetInfo = [targetId |-> "t1", url |-> "u1", title |-> "T0"]

====
